---- MODULE Spec2Model ----
(***************************************************************************)
(* The KaChow services.  The order service (POST /orders,                   *)
(* PUT /orders/:id/status), the payment service (POST /payments,           *)
(* POST /payments/:id/refund), the event emission both perform (emitEvent) *)
(* and POST /notify of the notification service make up Next; the          *)
(* notification service (POST /events, POST /notify), the analytics        *)
(* service (POST /events, POST /metrics), the auth service (POST /login,   *)
(* POST /validate) and the user service (GET /users/:id, POST /users)      *)
(* each have a next-state relation of their own.  `req' is                 *)
(* the bag of the HTTP requests whose handler has not returned yet; a      *)
(* request's pc is the await its handler is suspended at.  One action is   *)
(* one run of a handler between two awaits (Node runs it without           *)
(* interleaving).  `response' is the response that the last step sent,     *)
(* with the request it answers.  `handled' is the event that                *)
(* notification-service finished processing last, with the way its         *)
(* processing ended (the last line of its log).                            *)
(*                                                                         *)
(* Money is counted in cents (29.99 is 2999).  Order, payment and          *)
(* notification identifiers are numbers: orders 1 and 2 are the pre-seeded *)
(* ord-001 and ord-002, payment 1 is the pre-seeded pay-001; 0 stands for  *)
(* null or for an identifier that is in no store.  An order's updatedAt    *)
(* counts the writes of a new timestamp since createdAt.  A token is the   *)
(* pair of the user id and the clock reading it is made of.  A request's   *)
(* `calls' counts the axios calls its handler has issued to user-service,  *)
(* payment-service, notification-service and analytics-service.            *)
(***************************************************************************)
EXTENDS Integers, Sequences, FiniteSets, Bags, TLC

VARIABLES orders, payments, req, nreq, ntxn, response,
          users, notifications, handled, events, metrics, reports, tokens, now

vars == <<orders, payments, req, nreq, ntxn, response,
          users, notifications, handled, events, metrics, reports,
          tokens, now>>

\* The stores of the services around order-service and payment-service.
userVars == <<users>>
notificationVars == <<notifications, handled>>
analyticsVars == <<events, metrics, reports>>
authVars == <<tokens, now>>

\* Number of requests that clients send in one behaviour (the payment request
\* that a POST /orders makes is not counted).
MaxReq == 2

\* Number of POST /orders that clients send in one behaviour in which the
\* events emitted are followed into notification-service.
MaxOrders == 1

\* Last reading of auth-service's clock in one behaviour.
MaxTime == 3

\* Lifetime of a token in clock units (24 * 60 * 60 * 1000 ms in the code).
TokenLifetime == 2

----------------------------------------------------------------------------
\* Inputs

\* user-service store as pre-seeded
SeededUsers ==
  [id \in {"usr-001", "usr-002", "usr-003"} |->
     CASE id = "usr-001" -> [id |-> id, username |-> "john_doe",
                             email |-> "john@example.com"]
       [] id = "usr-002" -> [id |-> id, username |-> "jane_smith",
                             email |-> "jane@example.com"]
       [] id = "usr-003" -> [id |-> id, username |-> "bob_wilson",
                             email |-> "bob@example.com"]]

UserIdInputs == {"usr-001", "usr-404"}

ItemsInputs ==
  { <<>>,
    <<[productId |-> "prod-001", quantity |-> 2, unitPrice |-> 2999]>> }

validStatuses == {"pending", "confirmed", "shipped", "delivered", "cancelled"}

StatusInputs == validStatuses \cup {"refunded"}

PaymentInputs ==
  { [orderId |-> 2, amount |-> 5997, currency |-> "USD", paymentMethod |-> "card"],
    [orderId |-> 2, amount |-> 5997, currency |-> "JPY", paymentMethod |-> "card"] }

\* POST /notify bodies: a known and an unknown user, a known and an unknown
\* notification type.
NotifyInputs ==
  { [userId |-> u, type |-> t, subject |-> "Welcome", message |-> "Hi"] :
      u \in UserIdInputs, t \in {"email", "sms", "fax"} }

\* An event posted without a payload (event.payload is undefined).
NoPayload == [undefined |-> TRUE]

\* POST /events bodies of analytics-service: one event of each kind the
\* services emit, an event of a kind no service emits, an OrderCreated with a
\* zero total, one without payload and an event without timestamp (0).
EventInputs ==
  { [eventType |-> "OrderCreated", timestamp |-> 1,
     payload |-> [orderId |-> 1, userId |-> "usr-001", totalAmount |-> 10997]],
    [eventType |-> "OrderCreated", timestamp |-> 1,
     payload |-> [orderId |-> 2, userId |-> "usr-002", totalAmount |-> 0]],
    [eventType |-> "OrderCreated", timestamp |-> 1, payload |-> NoPayload],
    [eventType |-> "OrderCreated", timestamp |-> 0,
     payload |-> [orderId |-> 1, userId |-> "usr-001", totalAmount |-> 10997]],
    [eventType |-> "OrderUpdated", timestamp |-> 1,
     payload |-> [orderId |-> 1, userId |-> "usr-001", status |-> "shipped",
                  previousStatus |-> "shipped"]],
    [eventType |-> "PaymentProcessed", timestamp |-> 1,
     payload |-> [paymentId |-> 1, orderId |-> 1, status |-> "completed",
                  amount |-> 10997]],
    [eventType |-> "PaymentProcessed", timestamp |-> 1,
     payload |-> [paymentId |-> 2, orderId |-> 2, status |-> "failed",
                  amount |-> 5997]],
    [eventType |-> "PaymentFailed", timestamp |-> 1,
     payload |-> [paymentId |-> 1, orderId |-> 1, reason |-> "refund"]],
    [eventType |-> "PaymentRefunded", timestamp |-> 1,
     payload |-> [paymentId |-> 1, orderId |-> 1]],
    [eventType |-> "UserCreated", timestamp |-> 2,
     payload |-> [userId |-> "usr-new1"]] }

\* POST /events bodies of notification-service: OrderCreated for a known and
\* for an unknown user, one without totalAmount and items, one without
\* payload; PaymentProcessed completed and failed for orders of the store and
\* for an unknown order; an event of a kind the service does not handle.
NotificationEvents ==
  { [eventType |-> "OrderCreated", timestamp |-> 1,
     payload |-> [orderId |-> 1, userId |-> "usr-001", totalAmount |-> 10997,
                  items |-> <<[productId |-> "prod-001", quantity |-> 2,
                               unitPrice |-> 2999]>>,
                  status |-> "confirmed"]],
    [eventType |-> "OrderCreated", timestamp |-> 1,
     payload |-> [orderId |-> 3, userId |-> "usr-404", totalAmount |-> 2999,
                  items |-> <<[productId |-> "prod-001", quantity |-> 1,
                               unitPrice |-> 2999]>>,
                  status |-> "pending"]],
    [eventType |-> "OrderCreated", timestamp |-> 1,
     payload |-> [orderId |-> 1, userId |-> "usr-001"]],
    [eventType |-> "OrderCreated", timestamp |-> 1, payload |-> NoPayload],
    [eventType |-> "PaymentProcessed", timestamp |-> 1,
     payload |-> [paymentId |-> 1, orderId |-> 1, status |-> "completed",
                  amount |-> 10997, transactionId |-> 1, error |-> ""]],
    [eventType |-> "PaymentProcessed", timestamp |-> 1,
     payload |-> [paymentId |-> 2, orderId |-> 2, status |-> "failed",
                  amount |-> 5997, transactionId |-> 0,
                  error |-> "Payment declined by processor"]],
    [eventType |-> "PaymentProcessed", timestamp |-> 1,
     payload |-> [paymentId |-> 3, orderId |-> 9, status |-> "completed",
                  amount |-> 2999, transactionId |-> 2, error |-> ""]],
    [eventType |-> "OrderUpdated", timestamp |-> 1,
     payload |-> [orderId |-> 1, userId |-> "usr-001", status |-> "shipped",
                  previousStatus |-> "shipped"]] }

\* POST /metrics bodies of analytics-service (value 0 stands for a missing
\* value).
MetricInputs ==
  { [service |-> "gateway", metric |-> "requests", value |-> 1],
    [service |-> "", metric |-> "requests", value |-> 1] }

\* Query strings of GET /metrics (service "" stands for no filter).
MetricQueries ==
  { [service |-> "", limit |-> 100],
    [service |-> "order-service", limit |-> 1] }

\* Query strings of GET /events (type "" stands for no filter).
EventQueries ==
  { [type |-> "", limit |-> 50],
    [type |-> "OrderCreated", limit |-> 1] }

\* Query strings of GET /reports.
ReportQueries ==
  { [type |-> "daily", service |-> ""],
    [type |-> "weekly", service |-> "payment-service"],
    [type |-> "yearly", service |-> ""] }

\* auth-service user store (username, password)
authUsers ==
  { [id |-> "usr-001", username |-> "john_doe", password |-> "password123"],
    [id |-> "usr-002", username |-> "jane_smith", password |-> "securepass456"],
    [id |-> "usr-003", username |-> "bob_wilson", password |-> "bobpass789"] }

\* POST /login bodies: good credentials of two users, a wrong password, an
\* unknown user and an empty username.
LoginInputs ==
  { [username |-> "john_doe", password |-> "password123"],
    [username |-> "jane_smith", password |-> "securepass456"],
    [username |-> "john_doe", password |-> "securepass456"],
    [username |-> "mallory", password |-> "password123"],
    [username |-> "", password |-> "password123"] }

\* A token that no login returned, and an empty token.
ForgedToken == [sub |-> "usr-001", iat |-> 0 - 1]
NoToken == [sub |-> "", iat |-> 0]

\* POST /users bodies: new users, users that repeat a username or an email of
\* the store (pre-seeded or of alice_wonder), a body without username and one
\* without email.
CreateUserInputs ==
  { [username |-> "alice_wonder", email |-> "alice@example.com"],
    [username |-> "carol_king", email |-> "carol@example.com"],
    [username |-> "dave_hall", email |-> "dave@example.com"],
    [username |-> "john_doe", email |-> "jane@example.com"],
    [username |-> "john_doe", email |-> "johnny@example.com"],
    [username |-> "jane_two", email |-> "jane@example.com"],
    [username |-> "alice_wonder", email |-> "wonder@example.com"],
    [username |-> "alice_two", email |-> "alice@example.com"],
    [username |-> "", email |-> "nobody@example.com"],
    [username |-> "erin_gray", email |-> ""] }

\* The ids that generateUserId returns, in the order of the calls.
UserIds == <<"usr-n01", "usr-n02", "usr-n03", "usr-n04">>

\* Outcomes of one axios call: a reply, or no reply (timeout / transport error)
LookupOutcomes(userId) ==
  (IF userId \in DOMAIN users THEN {"ok"} ELSE {"notfound"}) \cup {"timeout", "error"}

\* Outcomes of GET /orders/:id of order-service
OrderLookupOutcomes(orderId) ==
  (IF orderId \in DOMAIN orders THEN {"ok"} ELSE {"notfound"}) \cup {"timeout", "error"}

DeliveryOutcomes == {"ok", "failed"}

----------------------------------------------------------------------------
\* Values

NoEvent == [eventType |-> "none"]
NoResp == [code |-> 0]
NoPayment == [id |-> 0]

EventTypes ==
  [ORDER_CREATED |-> "OrderCreated", ORDER_UPDATED |-> "OrderUpdated",
   PAYMENT_PROCESSED |-> "PaymentProcessed", PAYMENT_FAILED |-> "PaymentFailed",
   USER_CREATED |-> "UserCreated"]

NewReq(kind) ==
  [kind |-> kind, pc |-> "done", userId |-> "", items |-> <<>>, lookup |-> "",
   orderId |-> 0, status |-> "", paymentId |-> 0, body |-> NoPayment,
   caller |-> 0, sent |-> FALSE, reply |-> 0, payment |-> NoPayment,
   evt |-> NoEvent, delivered |-> FALSE, notification |-> "none", analytics |-> "none",
   notificationId |-> 0, resp |-> NoResp,
   calls |-> [lookup |-> 0, payment |-> 0, notification |-> 0, analytics |-> 0]]

\* No response was sent in the step that led to the state.
NoResponse == NewReq("none")

RECURSIVE calculateTotal(_)

\* A total that adds the unit prices and forgets the quantities.
calculateTotalOfUnitPrices(items) ==
  IF items = <<>> THEN 0
  ELSE calculateTotal(SubSeq(items, 1, Len(items) - 1))
       + items[Len(items)].unitPrice

\* items.reduce((sum, item) => sum + item.quantity * item.unitPrice, 0)
calculateTotal(items) ==
  IF items = <<>> THEN 0
  ELSE calculateTotal(SubSeq(items, 1, Len(items) - 1))
       + items[Len(items)].quantity * items[Len(items)].unitPrice

generateOrderId == Cardinality(DOMAIN orders) + 1
generatePaymentId == Cardinality(DOMAIN payments) + 1
generateTransactionId == ntxn + 1

\* schemas.CreateOrderRequestSchema
ValidateCreateOrder(userId, items) ==
  /\ items # <<>>
  /\ \A i \in 1..Len(items) : items[i].quantity >= 0 /\ items[i].unitPrice >= 0

\* schemas.PaymentRequestSchema
ValidatePayment(body) ==
  /\ body.currency \in {"USD", "EUR", "GBP"}
  /\ body.paymentMethod \in {"card", "bank_transfer", "paypal"}

\* schemas.NotificationRequestSchema
ValidateNotification(body) ==
  /\ body.userId # ""
  /\ body.type \in {"email", "sms", "push"}

Init ==
  /\ orders = (1 :> [id |-> 1, userId |-> "usr-001",
                     items |-> <<[productId |-> "prod-001", quantity |-> 2, unitPrice |-> 2999],
                                 [productId |-> "prod-002", quantity |-> 1, unitPrice |-> 4999]>>,
                     totalAmount |-> 10997, status |-> "confirmed", paymentId |-> 1,
                     createdAt |-> 0, updatedAt |-> 1])
              @@ (2 :> [id |-> 2, userId |-> "usr-002",
                        items |-> <<[productId |-> "prod-003", quantity |-> 3, unitPrice |-> 1999]>>,
                        totalAmount |-> 5997, status |-> "pending", paymentId |-> 0,
                        createdAt |-> 0, updatedAt |-> 0])
  /\ payments = (1 :> [id |-> 1, orderId |-> 1, amount |-> 10997, currency |-> "USD",
                       status |-> "completed", paymentMethod |-> "card",
                       transactionId |-> 1, error |-> "", refundTransactionId |-> 0])
  /\ req = EmptyBag
  /\ nreq = 0
  /\ ntxn = 1
  /\ response = NoResponse
  /\ users = SeededUsers
  /\ notifications = <<>>
  /\ handled = NoResponse
  /\ events = <<>>
  /\ metrics = <<>>
  /\ reports = <<>>
  /\ tokens = <<>>
  /\ now = 0

----------------------------------------------------------------------------
\* Requests in flight

InFlight == BagToSet(req)

Add(y) == req (+) SetToBag({y})
Remove(x) == req (-) SetToBag({x})
Replace(x, y) == (req (-) SetToBag({x})) (+) SetToBag({y})

\* The POST /orders handler that awaits the answer of the payment request a.
CallerWaiting(a) ==
  /\ a.caller # 0
  /\ \E c \in InFlight :
       c.kind = "CreateOrder" /\ c.pc = "payment" /\ c.orderId = a.caller

\* The handler of x returns, y being x with the response sent.  The answer to
\* a payment request of order-service stays in flight until it is received.
Finish(x, y) ==
  /\ response' = [y EXCEPT !.pc = "done"]
  /\ req' = IF y.kind = "Authorize" /\ CallerWaiting(y)
            THEN Replace(x, [y EXCEPT !.pc = "replied"])
            ELSE Remove(x)

\* A request answered by the run of the handler that received it.
Answer(y) ==
  /\ response' = [y EXCEPT !.pc = "done"]
  /\ req' = IF y.kind = "Authorize" /\ CallerWaiting(y)
            THEN Add([y EXCEPT !.pc = "replied"])
            ELSE req

----------------------------------------------------------------------------
\* emitEvent (order-service and payment-service carry the same function)

\* No catch at all: every settled post escapes emitEvent as an exception.
CaughtNever(outcome) == FALSE

\* A catch that lets a failed post escape emitEvent.
CaughtOnlyOk(outcome) == outcome = "ok"

\* try { await axios.post(...) } catch (err) { console.log(...) }: whatever the
\* outcome of the post, control continues after the try statement.
Caught(outcome) == TRUE

\* emitEvent up to its first await: the event is built and the post to
\* notification-service is issued.
emitEvent(rec, eventType, payload) ==
  [rec EXCEPT !.evt = [eventType |-> eventType, payload |-> payload],
              !.notification = "pending",
              !.calls.notification = @ + 1,
              !.pc = "emit"]

\* The response a handler sends once emitEvent has returned.
Response(rec) ==
  CASE rec.kind = "CreateOrder" ->
         IF rec.payment = NoPayment
         THEN [code |-> 201, order |-> orders[rec.orderId],
               message |-> "Order created successfully"]
         ELSE [code |-> 201, order |-> orders[rec.orderId],
               message |-> "Order created successfully", payment |-> rec.payment]
    [] rec.kind = "UpdateStatus" ->
         [code |-> 200, order |-> orders[rec.orderId],
          message |-> "Status updated successfully"]
    [] rec.kind = "Authorize" ->
         LET payment == payments[rec.paymentId]
             data == [id |-> rec.paymentId, orderId |-> rec.body.orderId,
                      amount |-> rec.body.amount, currency |-> payment.currency,
                      status |-> payment.status,
                      paymentMethod |-> rec.body.paymentMethod,
                      transactionId |-> payment.transactionId]
         IN  IF payment.status = "failed"
             THEN [code |-> 402, data |-> data, error |-> payment.error]
             ELSE [code |-> 201, data |-> data]
    [] rec.kind = "Refund" ->
         [code |-> 200, payment |-> payments[rec.paymentId],
          message |-> "Payment refunded successfully"]

\* `await emitEvent(...)' throws: POST /orders and POST /payments answer 500
\* from their catch; the other two handlers have none and never answer.
Rejected(x, y) ==
  IF y.kind \in {"CreateOrder", "Authorize"}
  THEN Finish(x, [y EXCEPT !.resp =
                    [code |-> 500,
                     error |-> IF y.kind = "CreateOrder"
                               THEN "Failed to create order"
                               ELSE "Failed to process payment"]])
  ELSE /\ req' = Replace(x, [y EXCEPT !.pc = "rejected"])
       /\ response' = NoResponse

\* An emitEvent that posts to notification-service again when the post failed.
AfterNotificationRetry(x, outcome) ==
  IF outcome = "failed"
  THEN [x EXCEPT !.calls.notification = @ + 1]
  ELSE [x EXCEPT !.notification = outcome,
                 !.analytics = "pending",
                 !.calls.analytics = @ + 1]

\* emitEvent after its first try statement: whatever the outcome, the post
\* to analytics-service is issued.
AfterNotification(x, outcome) ==
  [x EXCEPT !.notification = outcome,
            !.analytics = "pending",
            !.calls.analytics = @ + 1]

\* The post to notification-service settles; the post to analytics-service is
\* issued next.
NotificationDelivered(x, outcome) ==
  /\ x \in InFlight
  /\ x.pc = "emit"
  /\ x.notification = "pending"
  /\ IF Caught(outcome)
     THEN /\ req' = Replace(x, AfterNotification(x, outcome))
          /\ response' = NoResponse
     ELSE Rejected(x, [x EXCEPT !.notification = outcome])
  /\ UNCHANGED <<orders, payments, nreq, ntxn>>
  /\ UNCHANGED <<userVars, notificationVars, analyticsVars, authVars>>

\* The post to analytics-service settles; emitEvent returns and the handler
\* sends its response.
AnalyticsDelivered(x, outcome) ==
  /\ x \in InFlight
  /\ x.pc = "emit"
  /\ x.analytics = "pending"
  /\ IF Caught(outcome)
     THEN Finish(x, [x EXCEPT !.analytics = outcome, !.resp = Response(x)])
     ELSE Rejected(x, [x EXCEPT !.analytics = outcome])
  /\ UNCHANGED <<orders, payments, nreq, ntxn>>
  /\ UNCHANGED <<userVars, notificationVars, analyticsVars, authVars>>

----------------------------------------------------------------------------
\* order-service: POST /orders

\* A lookup whose failure is not taken for a failure.
UserValidatedAlways(outcome) == TRUE

\* The try around the user lookup: only a 2xx reply leaves it normally.
UserValidated(outcome) == outcome = "ok"

\* Request received: validation, then the call to user-service is issued.
CreateOrder(userId, items) ==
  /\ nreq < MaxReq
  /\ nreq' = nreq + 1
  /\ LET rec == [NewReq("CreateOrder") EXCEPT !.userId = userId, !.items = items]
     IN  IF ValidateCreateOrder(userId, items)
         THEN /\ req' = Add([rec EXCEPT !.pc = "lookup", !.calls.lookup = @ + 1])
              /\ response' = NoResponse
         ELSE Answer([rec EXCEPT !.resp = [code |-> 400, error |-> "Invalid request"]])
  /\ UNCHANGED <<orders, payments, ntxn>>
  /\ UNCHANGED <<userVars, notificationVars, analyticsVars, authVars>>

\* An order that is kept aside until payment-service has answered.
StoredWithPayment(orderId, order) == orders

\* orders.set(orderId, order) of step 3, before the payment call of step 4.
Stored(orderId, order) == orders @@ (orderId :> order)

\* The user lookup settles.  On failure: 400 Invalid user.  Otherwise the
\* total is computed, the order is stored as pending and the call to
\* payment-service is issued.
UserLookupReply(x, outcome) ==
  /\ x \in InFlight
  /\ x.pc = "lookup"
  /\ outcome \in LookupOutcomes(x.userId)
  /\ IF ~UserValidated(outcome)
     THEN /\ Finish(x, [x EXCEPT !.lookup = outcome,
                                 !.resp = [code |-> 400, error |-> "Invalid user"]])
          /\ UNCHANGED orders
     ELSE LET orderId == generateOrderId
              order == [id |-> orderId, userId |-> x.userId, items |-> x.items,
                        totalAmount |-> calculateTotal(x.items),
                        status |-> "pending", paymentId |-> 0,
                        createdAt |-> 0, updatedAt |-> 0]
          IN  /\ orders' = Stored(orderId, order)
              /\ req' = Replace(x, [x EXCEPT !.lookup = outcome,
                                             !.orderId = orderId,
                                             !.calls.payment = @ + 1,
                                             !.pc = "payment"])
              /\ response' = NoResponse
  /\ UNCHANGED <<payments, nreq, ntxn>>
  /\ UNCHANGED <<userVars, notificationVars, analyticsVars, authVars>>

\* A catch that rolls the order back by cancelling it.
PaymentFailedRollback(order) == [order EXCEPT !.status = "cancelled"]

\* catch (err) of the payment step: the order is left as it is.
PaymentFailed(order) == order

\* The answers of payment-service to x that x has not received.
Replies(x) ==
  {a \in InFlight : a.kind = "Authorize" /\ a.pc = "replied" /\ a.caller = x.orderId}

\* A payload made of what the order was when it was stored.
OrderCreatedPayloadBeforePayment(x, order) ==
  [orderId |-> x.orderId, userId |-> x.userId,
   totalAmount |-> calculateTotal(x.items), items |-> x.items,
   status |-> "pending", paymentId |-> 0]

\* The payload of OrderCreated: status and paymentId are read from the order
\* object when emitEvent is called.
OrderCreatedPayload(x, order) ==
  [orderId |-> x.orderId, userId |-> x.userId,
   totalAmount |-> calculateTotal(x.items), items |-> x.items,
   status |-> order.status, paymentId |-> order.paymentId]

\* The payment step has settled and the handler runs on to emitEvent.  No
\* answer of payment-service is awaited any longer.
AfterPayment(x, code, payment, order) ==
  /\ orders' = [orders EXCEPT ![x.orderId] = order]
  /\ LET y == emitEvent([x EXCEPT !.payment = payment, !.reply = code],
                        EventTypes.ORDER_CREATED,
                        OrderCreatedPayload(x, order))
         rest == (InFlight \ {x}) \ Replies(x)
     IN  req' = [r \in rest |-> req[r]] (+) SetToBag({y})
  /\ response' = NoResponse
  /\ UNCHANGED <<payments, nreq, ntxn>>
  /\ UNCHANGED <<userVars, notificationVars, analyticsVars, authVars>>

\* payment-service answered the call: 2xx resolves, anything else throws.
PaymentReply(x, a) ==
  /\ x \in InFlight
  /\ x.pc = "payment"
  /\ a \in Replies(x)
  /\ LET order == orders[x.orderId]
     IN  IF a.resp.code = 201
         THEN AfterPayment(x, a.resp.code, a.resp.data,
                [order EXCEPT !.paymentId = a.resp.data.id,
                              !.status = IF a.resp.data.status = "completed"
                                         THEN "confirmed" ELSE "pending",
                              !.updatedAt = @ + 1])
         ELSE AfterPayment(x, a.resp.code, NoPayment, PaymentFailed(order))

\* A call to payment-service that waits for the answer without a limit.
PaymentCallWithoutTimeout(x) ==
  /\ FALSE
  /\ x \in InFlight
  /\ x.pc = "payment"
  /\ AfterPayment(x, 0, NoPayment, PaymentFailed(orders[x.orderId]))

\* The call to payment-service ends without an answer: the 10 s timeout
\* expires or the connection fails.
PaymentNoReply(x) ==
  /\ x \in InFlight
  /\ x.pc = "payment"
  /\ AfterPayment(x, 0, NoPayment, PaymentFailed(orders[x.orderId]))

----------------------------------------------------------------------------
\* order-service: PUT /orders/:id/status

\* Checks that look for the order and accept whatever status is given.
UpdateStatusErrorAnyStatus(id, status) ==
  IF id \notin DOMAIN orders
  THEN [code |-> 404, error |-> "Order not found"]
  ELSE NoResp

\* The handler's checks before it writes: the response it returns early, or
\* NoResp when it goes on.
UpdateStatusError(id, status) ==
  IF id \notin DOMAIN orders
  THEN [code |-> 404, error |-> "Order not found"]
  ELSE IF status \notin validStatuses
       THEN [code |-> 400, error |-> "Invalid status"]
       ELSE NoResp

\* A write that also detaches the payment from the order.
StatusWrittenDetached(order, status) ==
  [order EXCEPT !.status = status, !.paymentId = 0, !.updatedAt = @ + 1]

\* The write of the handler: status and updatedAt of the order object.
StatusWritten(order, status) ==
  [order EXCEPT !.status = status, !.updatedAt = @ + 1]

UpdateStatus(id, status) ==
  /\ nreq < MaxReq
  /\ nreq' = nreq + 1
  /\ LET rec == [NewReq("UpdateStatus") EXCEPT !.orderId = id, !.status = status]
         error == UpdateStatusError(id, status)
     IN  IF error # NoResp
         THEN /\ Answer([rec EXCEPT !.resp = error])
              /\ UNCHANGED orders
         ELSE LET order == StatusWritten(orders[id], status)
              IN  /\ orders' = [orders EXCEPT ![id] = order]
                  /\ req' = Add(emitEvent(rec, EventTypes.ORDER_UPDATED,
                                  [orderId |-> id, userId |-> order.userId,
                                   status |-> status,
                                   previousStatus |-> order.status]))
                  /\ response' = NoResponse
  /\ UNCHANGED <<payments, ntxn>>
  /\ UNCHANGED <<userVars, notificationVars, analyticsVars, authVars>>

----------------------------------------------------------------------------
\* payment-service: POST /payments

\* A handler that stores the payment record before it validates the request.
AuthorizeStoresFirst(caller, body) ==
  LET paymentId == generatePaymentId
      payment == [id |-> paymentId, orderId |-> body.orderId,
                  amount |-> body.amount, currency |-> body.currency,
                  status |-> "pending", paymentMethod |-> body.paymentMethod,
                  transactionId |-> 0, error |-> "", refundTransactionId |-> 0]
  IN  IF ~ValidatePayment(body)
      THEN [rec |-> [NewReq("Authorize") EXCEPT
                       !.caller = caller, !.body = body,
                       !.resp = [code |-> 400, error |-> "Invalid request"]],
            payments |-> payments @@ (paymentId :> payment)]
      ELSE [rec |-> [NewReq("Authorize") EXCEPT
                       !.caller = caller, !.body = body,
                       !.paymentId = paymentId, !.pc = "processing"],
            payments |-> payments @@ (paymentId :> payment)]

\* The handler from the arrival of the request to `await processPayment': the
\* request's entry and the payment store it leaves.
Authorize(caller, body) ==
  IF ~ValidatePayment(body)
  THEN [rec |-> [NewReq("Authorize") EXCEPT
                   !.caller = caller, !.body = body,
                   !.resp = [code |-> 400, error |-> "Invalid request"]],
        payments |-> payments]
  ELSE LET paymentId == generatePaymentId
           payment == [id |-> paymentId, orderId |-> body.orderId,
                       amount |-> body.amount, currency |-> body.currency,
                       status |-> "pending", paymentMethod |-> body.paymentMethod,
                       transactionId |-> 0, error |-> "", refundTransactionId |-> 0]
       IN  [rec |-> [NewReq("Authorize") EXCEPT
                       !.caller = caller, !.body = body,
                       !.paymentId = paymentId, !.pc = "processing"],
            payments |-> payments @@ (paymentId :> payment)]

\* A client posts a payment request.
AuthorizeFromClient(body) ==
  /\ nreq < MaxReq
  /\ nreq' = nreq + 1
  /\ LET a == Authorize(0, body)
     IN  /\ payments' = a.payments
         /\ IF a.rec.pc = "done"
            THEN Answer(a.rec)
            ELSE req' = Add(a.rec) /\ response' = NoResponse
  /\ UNCHANGED <<orders, ntxn>>
  /\ UNCHANGED <<userVars, notificationVars, analyticsVars, authVars>>

\* A request that asks for the sum of the unit prices.
PaymentRequestOfUnitPrices(x) ==
  [orderId |-> x.orderId, amount |-> calculateTotalOfUnitPrices(x.items),
   currency |-> "USD", paymentMethod |-> "card"]

\* The body POST /orders sends to payment-service.
PaymentRequest(x) ==
  [orderId |-> x.orderId, amount |-> calculateTotal(x.items),
   currency |-> "USD", paymentMethod |-> "card"]

\* The payment request of a POST /orders reaches payment-service.
AuthorizeFromOrder(x) ==
  /\ x \in InFlight
  /\ x.pc = "payment"
  /\ ~x.sent
  /\ LET a == Authorize(x.orderId, PaymentRequest(x))
         sent == Replace(x, [x EXCEPT !.sent = TRUE])
     IN  /\ payments' = a.payments
         /\ IF a.rec.pc = "done"
            THEN /\ response' = a.rec
                 /\ req' = sent (+) SetToBag({[a.rec EXCEPT !.pc = "replied"]})
            ELSE /\ req' = sent (+) SetToBag({a.rec})
                 /\ response' = NoResponse
  /\ UNCHANGED <<orders, nreq, ntxn>>
  /\ UNCHANGED <<userVars, notificationVars, analyticsVars, authVars>>

\* processPayment: the result it resolves with after its delay (success is
\* drawn at random in the code).
processPayment(success) ==
  IF success
  THEN [status |-> "completed", transactionId |-> generateTransactionId]
  ELSE [status |-> "failed", error |-> "Payment declined by processor"]

\* An update that writes a transaction reference whatever the result.
UpdatedWithReferenceAlways(payment, processResult) ==
  IF processResult.status = "completed"
  THEN [payment EXCEPT !.status = processResult.status,
                       !.transactionId = processResult.transactionId]
  ELSE [payment EXCEPT !.status = processResult.status,
                       !.transactionId = generateTransactionId,
                       !.error = processResult.error]

\* Step 3 of the handler: the payment record updated with the result.
Updated(payment, processResult) ==
  IF processResult.status = "completed"
  THEN [payment EXCEPT !.status = processResult.status,
                       !.transactionId = processResult.transactionId]
  ELSE [payment EXCEPT !.status = processResult.status,
                       !.error = processResult.error]

\* A payload made of the record as it was stored on arrival.
PaymentProcessedPayloadAsStored(x, payment) ==
  [paymentId |-> x.paymentId, orderId |-> x.body.orderId,
   status |-> "pending", amount |-> x.body.amount,
   currency |-> payment.currency, transactionId |-> 0, error |-> ""]

\* The payload of PaymentProcessed, read from the updated record.
PaymentProcessedPayload(x, payment) ==
  [paymentId |-> x.paymentId, orderId |-> x.body.orderId,
   status |-> payment.status, amount |-> x.body.amount,
   currency |-> payment.currency, transactionId |-> payment.transactionId,
   error |-> payment.error]

\* processPayment resolves; the record is updated and PaymentProcessed is
\* emitted.
PaymentProcessed(x, success) ==
  /\ x \in InFlight
  /\ x.pc = "processing"
  /\ LET paymentId == x.paymentId
         payment == Updated(payments[paymentId], processPayment(success))
     IN  /\ payments' = [payments EXCEPT ![paymentId] = payment]
         /\ ntxn' = IF success THEN generateTransactionId ELSE ntxn
         /\ req' = Replace(x,
              emitEvent(x, EventTypes.PAYMENT_PROCESSED,
                        PaymentProcessedPayload(x, payment)))
  /\ response' = NoResponse
  /\ UNCHANGED <<orders, nreq>>
  /\ UNCHANGED <<userVars, notificationVars, analyticsVars, authVars>>

----------------------------------------------------------------------------
\* payment-service: POST /payments/:id/refund

\* Checks that let a refunded payment through.
RefundErrorRefundedPasses(id) ==
  IF id \notin DOMAIN payments
  THEN [code |-> 404, error |-> "Payment not found"]
  ELSE IF payments[id].status \notin {"completed", "refunded"}
       THEN [code |-> 400, error |-> "Cannot refund"]
       ELSE NoResp

\* Checks that look only for the payment, not at its status.
RefundErrorNoStatusCheck(id) ==
  IF id \notin DOMAIN payments
  THEN [code |-> 404, error |-> "Payment not found"]
  ELSE NoResp

\* The handler's checks on arrival: the response it returns early, or NoResp
\* when it goes on to refund.
RefundError(id) ==
  IF id \notin DOMAIN payments
  THEN [code |-> 404, error |-> "Payment not found"]
  ELSE IF payments[id].status # "completed"
       THEN [code |-> 400, error |-> "Cannot refund"]
       ELSE NoResp

\* Request received; when the checks pass the handler awaits the simulated
\* refund processing (500 ms).
Refund(id) ==
  /\ nreq < MaxReq
  /\ nreq' = nreq + 1
  /\ LET rec == [NewReq("Refund") EXCEPT !.paymentId = id]
     IN  IF RefundError(id) # NoResp
         THEN Answer([rec EXCEPT !.resp = RefundError(id)])
         ELSE req' = Add([rec EXCEPT !.pc = "refunding"]) /\ response' = NoResponse
  /\ UNCHANGED <<orders, payments, ntxn>>
  /\ UNCHANGED <<userVars, notificationVars, analyticsVars, authVars>>

\* The processing delay is over: the payment is written and the refund event
\* is emitted.
RefundProcessed(x) ==
  /\ x \in InFlight
  /\ x.pc = "refunding"
  /\ LET id == x.paymentId
         payment == [payments[id] EXCEPT !.status = "refunded",
                                         !.refundTransactionId = generateTransactionId]
     IN  /\ payments' = [payments EXCEPT ![id] = payment]
         /\ ntxn' = generateTransactionId
         /\ req' = Replace(x,
              emitEvent(x, EventTypes.PAYMENT_FAILED,
                        [paymentId |-> id, orderId |-> payment.orderId,
                         reason |-> "refund", amount |-> payment.amount,
                         refundTransactionId |-> payment.refundTransactionId]))
  /\ response' = NoResponse
  /\ UNCHANGED <<orders, nreq>>
  /\ UNCHANGED <<userVars, notificationVars, analyticsVars, authVars>>

----------------------------------------------------------------------------
\* notification-service: POST /notify

\* A fetchUser that hands back a user whatever the lookup did.
UserFetchedAlways(outcome) == TRUE

\* fetchUser: the user of a 2xx reply, null when the call throws (404,
\* timeout, transport error).
UserFetched(outcome) == outcome = "ok"

generateNotificationId == Len(notifications) + 1

\* Request received: validation, then fetchUser is awaited.
Notify(body) ==
  /\ nreq < MaxReq
  /\ nreq' = nreq + 1
  /\ LET rec == [NewReq("Notify") EXCEPT !.userId = body.userId, !.body = body]
     IN  IF ValidateNotification(body)
         THEN req' = Add([rec EXCEPT !.pc = "fetchUser"]) /\ response' = NoResponse
         ELSE Answer([rec EXCEPT !.resp = [code |-> 400, error |-> "Invalid request"]])
  /\ UNCHANGED <<orders, payments, ntxn>>
  /\ UNCHANGED <<userVars, notificationVars, analyticsVars, authVars>>

\* fetchUser returns.  Without a user: 404.  Otherwise the notification is
\* stored as pending and sendNotification is awaited.
NotifyUserFetched(x, outcome) ==
  /\ x \in InFlight
  /\ x.kind = "Notify"
  /\ x.pc = "fetchUser"
  /\ outcome \in LookupOutcomes(x.userId)
  /\ IF ~UserFetched(outcome)
     THEN /\ Finish(x, [x EXCEPT !.lookup = outcome,
                                 !.resp = [code |-> 404, error |-> "User not found",
                                           userId |-> x.userId]])
          /\ UNCHANGED notifications
     ELSE LET notificationId == generateNotificationId
              notification == [id |-> notificationId, userId |-> x.userId,
                               type |-> x.body.type, subject |-> x.body.subject,
                               message |-> x.body.message,
                               status |-> "pending", sentAt |-> "null"]
          IN  /\ notifications' = Append(notifications, notification)
              /\ req' = Replace(x, [x EXCEPT !.lookup = outcome,
                                             !.notificationId = notificationId,
                                             !.pc = "sending"])
              /\ response' = NoResponse
  /\ UNCHANGED <<orders, payments, nreq, ntxn, handled>>
  /\ UNCHANGED <<userVars, analyticsVars, authVars>>

\* An update that stamps the record whatever the result.
SentStampsAlways(notification, success) ==
  [notification EXCEPT !.status = IF success THEN "sent" ELSE "failed",
                       !.sentAt = "set"]

\* An update that is made only when the delivery succeeded.
SentOnlyOnSuccess(notification, success) ==
  IF success
  THEN [notification EXCEPT !.status = "sent", !.sentAt = "set"]
  ELSE notification

\* The record updated with the result of sendNotification: result.sentAt is
\* undefined when the delivery failed.
Sent(notification, success) ==
  [notification EXCEPT !.status = IF success THEN "sent" ELSE "failed",
                       !.sentAt = IF success THEN "set" ELSE "undefined"]

\* sendNotification resolves (success is drawn at random in the code): the
\* record takes its final status and the response is sent.
NotifySent(x, success) ==
  /\ x \in InFlight
  /\ x.kind = "Notify"
  /\ x.pc = "sending"
  /\ LET notification == Sent(notifications[x.notificationId], success)
     IN  /\ notifications' = [notifications EXCEPT ![x.notificationId] = notification]
         /\ Finish(x, [x EXCEPT !.resp =
                         [code |-> 201, notification |-> notification,
                          message |-> IF success
                                      THEN "Notification sent successfully"
                                      ELSE "Failed to send notification"]])
  /\ UNCHANGED <<orders, payments, nreq, ntxn, handled>>
  /\ UNCHANGED <<userVars, analyticsVars, authVars>>

----------------------------------------------------------------------------
\* notification-service: POST /events

\* An acknowledgment that refuses the kinds the service does not handle.
AcknowledgeHandledKinds(event) ==
  IF event.eventType \in {EventTypes.ORDER_CREATED, EventTypes.PAYMENT_PROCESSED}
  THEN [code |-> 200, received |-> TRUE, eventType |-> event.eventType]
  ELSE [code |-> 400, error |-> "Unknown event type"]

\* res.json({ received: true, eventType }), sent on receipt.
Acknowledge(event) ==
  [code |-> 200, received |-> TRUE, eventType |-> event.eventType]

\* The handler of x ends without a response (the acknowledgment was sent on
\* receipt): how it ended is what it logged.
Handled(x, how) == [x EXCEPT !.pc = how]

\* POST /events up to its first await: the acknowledged request, and where
\* the handler of the event's kind stands after it started and issued its
\* first lookup.  Reading the fields of an undefined payload throws, which
\* the catch of the endpoint logs.
Received(event) ==
  LET rec == [NewReq("Event") EXCEPT !.body = event,
                                     !.resp = Acknowledge(event)]
  IN  [acknowledged |-> rec,
       handler |->
         IF event.eventType \notin {EventTypes.ORDER_CREATED,
                                    EventTypes.PAYMENT_PROCESSED}
         THEN Handled(rec, "unknown")
         ELSE IF event.payload = NoPayload
         THEN Handled(rec, "error")
         ELSE IF event.eventType = EventTypes.ORDER_CREATED
         THEN [rec EXCEPT !.userId = event.payload.userId, !.pc = "fetchUser"]
         ELSE [rec EXCEPT !.orderId = event.payload.orderId, !.pc = "fetchOrder"]]

\* An event posted by a client is received and acknowledged.
ReceiveEvent(event) ==
  /\ nreq < MaxReq
  /\ nreq' = nreq + 1
  /\ LET r == Received(event)
     IN  /\ response' = r.acknowledged
         /\ IF r.handler.pc \in {"unknown", "error"}
            THEN req' = req /\ handled' = r.handler
            ELSE req' = Add(r.handler) /\ handled' = handled
  /\ UNCHANGED <<orders, payments, ntxn, notifications>>
  /\ UNCHANGED <<userVars, analyticsVars, authVars>>

\* The event that x posts from emitEvent reaches notification-service, which
\* acknowledges it; x goes on when the acknowledgment reaches it.
EventArrives(x) ==
  /\ x \in InFlight
  /\ x.pc = "emit"
  /\ x.notification = "pending"
  /\ ~x.delivered
  /\ LET r == Received(x.evt)
         posted == Replace(x, [x EXCEPT !.delivered = TRUE])
     IN  /\ response' = r.acknowledged
         /\ IF r.handler.pc \in {"unknown", "error"}
            THEN req' = posted /\ handled' = r.handler
            ELSE req' = posted (+) SetToBag({r.handler}) /\ handled' = handled
  /\ UNCHANGED <<orders, payments, nreq, ntxn, notifications>>
  /\ UNCHANGED <<userVars, analyticsVars, authVars>>

\* fetchOrder: the order of a 2xx reply, null when the call throws.
OrderFetched(outcome) == outcome = "ok"

\* handlePaymentProcessed: fetchOrder returns.  Without an order the handler
\* returns; otherwise it fetches the user of the order.
EventOrderFetched(x, outcome) ==
  /\ x \in InFlight
  /\ x.kind = "Event"
  /\ x.pc = "fetchOrder"
  /\ outcome \in OrderLookupOutcomes(x.orderId)
  /\ IF ~OrderFetched(outcome)
     THEN /\ req' = Remove(x)
          /\ handled' = Handled([x EXCEPT !.lookup = outcome], "order not found")
     ELSE /\ req' = Replace(x, [x EXCEPT !.userId = orders[x.orderId].userId,
                                         !.pc = "fetchUser"])
          /\ handled' = handled
  /\ response' = NoResponse
  /\ UNCHANGED <<orders, payments, nreq, ntxn, notifications>>
  /\ UNCHANGED <<userVars, analyticsVars, authVars>>

\* totalAmount.toFixed, items.length and amount.toFixed throw on a payload
\* that lacks the field.
MessageThrows(event) ==
  IF event.eventType = EventTypes.ORDER_CREATED
  THEN ~ {"totalAmount", "items"} \subseteq DOMAIN event.payload
  ELSE "amount" \notin DOMAIN event.payload

\* The notification that handleOrderCreated stores.
OrderNotification(x) ==
  [id |-> generateNotificationId, userId |-> x.userId, type |-> "email",
   subject |-> "Order Confirmation - KaChow",
   message |-> [text |-> "order received", orderId |-> x.body.payload.orderId,
                totalAmount |-> x.body.payload.totalAmount,
                items |-> Len(x.body.payload.items)],
   status |-> "pending", relatedOrderId |-> x.body.payload.orderId,
   eventType |-> EventTypes.ORDER_CREATED, sentAt |-> "null"]

\* A handler that writes the payment-confirmed message whatever the status.
PaymentNotificationConfirmedAlways(x) ==
  [id |-> generateNotificationId, userId |-> x.userId, type |-> "email",
   subject |-> "Payment Confirmed - KaChow",
   message |-> [text |-> "payment processed", orderId |-> x.orderId,
                amount |-> x.body.payload.amount,
                transactionId |-> x.body.payload.transactionId],
   status |-> "pending", relatedOrderId |-> x.orderId,
   relatedPaymentId |-> x.body.payload.paymentId,
   eventType |-> EventTypes.PAYMENT_PROCESSED, sentAt |-> "null"]

\* The notification that handlePaymentProcessed stores, addressed to the
\* user of the order fetched.
PaymentNotification(x) ==
  [id |-> generateNotificationId, userId |-> x.userId, type |-> "email",
   subject |-> IF x.body.payload.status = "completed"
               THEN "Payment Confirmed - KaChow"
               ELSE "Payment Failed - Action Required",
   message |-> IF x.body.payload.status = "completed"
               THEN [text |-> "payment processed", orderId |-> x.orderId,
                     amount |-> x.body.payload.amount,
                     transactionId |-> x.body.payload.transactionId]
               ELSE [text |-> "payment not processed", orderId |-> x.orderId,
                     amount |-> x.body.payload.amount,
                     error |-> IF x.body.payload.error = "" THEN "Unknown error"
                               ELSE x.body.payload.error],
   status |-> "pending", relatedOrderId |-> x.orderId,
   relatedPaymentId |-> x.body.payload.paymentId,
   eventType |-> EventTypes.PAYMENT_PROCESSED, sentAt |-> "null"]

\* Both handlers: fetchUser returns.  Without a user the handler returns;
\* otherwise the notification is stored as pending and sendNotification is
\* awaited.
EventUserFetched(x, outcome) ==
  /\ x \in InFlight
  /\ x.kind = "Event"
  /\ x.pc = "fetchUser"
  /\ outcome \in LookupOutcomes(x.userId)
  /\ IF ~UserFetched(outcome)
     THEN /\ req' = Remove(x)
          /\ handled' = Handled([x EXCEPT !.lookup = outcome], "user not found")
          /\ UNCHANGED notifications
     ELSE IF MessageThrows(x.body)
     THEN /\ req' = Remove(x)
          /\ handled' = Handled([x EXCEPT !.lookup = outcome], "error")
          /\ UNCHANGED notifications
     ELSE LET notification ==
                IF x.body.eventType = EventTypes.ORDER_CREATED
                THEN OrderNotification(x) ELSE PaymentNotification(x)
          IN  /\ notifications' = Append(notifications, notification)
              /\ req' = Replace(x, [x EXCEPT !.lookup = outcome,
                                             !.notificationId = notification.id,
                                             !.pc = "sending"])
              /\ handled' = handled
  /\ response' = NoResponse
  /\ UNCHANGED <<orders, payments, nreq, ntxn>>
  /\ UNCHANGED <<userVars, analyticsVars, authVars>>

\* Both handlers: sendNotification resolves, the record takes its final
\* status and the handler returns.
EventNotificationSent(x, success) ==
  /\ x \in InFlight
  /\ x.kind = "Event"
  /\ x.pc = "sending"
  /\ LET notification == Sent(notifications[x.notificationId], success)
     IN  /\ notifications' = [notifications EXCEPT ![x.notificationId] = notification]
         /\ handled' = Handled(x, notification.status)
  /\ req' = Remove(x)
  /\ response' = NoResponse
  /\ UNCHANGED <<orders, payments, nreq, ntxn>>
  /\ UNCHANGED <<userVars, analyticsVars, authVars>>

----------------------------------------------------------------------------
\* analytics-service: POST /events, POST /metrics

\* recordMetric: the metric store with the new entry appended.
recordMetric(service, metric, value) ==
  Append(metrics, [service |-> service, metric |-> metric, value |-> value])

\* processEvent: the event is stored, then a metric is derived for the kinds
\* of the switch.  Reading a field of an undefined payload throws after the
\* event was stored.
processEvent(event) ==
  LET stored == Append(events, event)
      kinds == {EventTypes.ORDER_CREATED, EventTypes.PAYMENT_PROCESSED,
                EventTypes.USER_CREATED}
  IN  IF event.eventType \notin kinds
      THEN [events |-> stored, metrics |-> metrics, threw |-> FALSE]
      ELSE IF event.payload = NoPayload
      THEN [events |-> stored, metrics |-> metrics, threw |-> TRUE]
      ELSE [events |-> stored, threw |-> FALSE,
            metrics |->
              CASE event.eventType = EventTypes.ORDER_CREATED ->
                     recordMetric("order-service", "orders_created",
                                  IF event.payload.totalAmount = 0 THEN 1
                                  ELSE event.payload.totalAmount)
                [] event.eventType = EventTypes.PAYMENT_PROCESSED ->
                     recordMetric("payment-service",
                                  IF event.payload.status = "completed"
                                  THEN "payments_successful" ELSE "payments_failed",
                                  IF event.payload.amount = 0 THEN 1
                                  ELSE event.payload.amount)
                [] event.eventType = EventTypes.USER_CREATED ->
                     recordMetric("user-service", "users_created", 1)]

\* POST /events: the whole handler runs in one step.
Ingest(event) ==
  /\ nreq < MaxReq
  /\ nreq' = nreq + 1
  /\ LET rec == [NewReq("Ingest") EXCEPT !.body = event]
     IN  IF event.eventType = "" \/ event.timestamp = 0
         THEN /\ Answer([rec EXCEPT !.resp = [code |-> 400,
                                              error |-> "Invalid event structure"]])
              /\ UNCHANGED <<events, metrics>>
         ELSE LET p == processEvent(event)
              IN  /\ events' = p.events
                  /\ metrics' = p.metrics
                  /\ Answer([rec EXCEPT !.resp =
                       IF p.threw
                       THEN [code |-> 500, error |-> "Internal server error"]
                       ELSE [code |-> 200, received |-> TRUE,
                             eventType |-> event.eventType]])
  /\ UNCHANGED <<orders, payments, ntxn, reports>>
  /\ UNCHANGED <<userVars, notificationVars, authVars>>

\* POST /metrics: a metric submitted directly.
PostMetric(body) ==
  /\ nreq < MaxReq
  /\ nreq' = nreq + 1
  /\ LET rec == [NewReq("PostMetric") EXCEPT !.body = body]
     IN  IF body.service = "" \/ body.metric = ""
         THEN /\ Answer([rec EXCEPT !.resp = [code |-> 400,
                                              error |-> "Invalid metric"]])
              /\ UNCHANGED metrics
         ELSE /\ metrics' = recordMetric(body.service, body.metric, body.value)
              /\ Answer([rec EXCEPT !.resp =
                   [code |-> 201, metric |-> metrics'[Len(metrics')],
                    message |-> "Metric recorded successfully"]])
  /\ UNCHANGED <<orders, payments, ntxn, events, reports>>
  /\ UNCHANGED <<userVars, notificationVars, authVars>>

----------------------------------------------------------------------------
\* analytics-service: GET /metrics, GET /events, GET /reports

\* slice(0, n)
Take(s, n) == SubSeq(s, 1, IF n < Len(s) THEN n ELSE Len(s))

\* Array.prototype.sort with (a, b) => b.timestamp - a.timestamp: a stable
\* sort, newest first.  e is put after the entries that are newer than it.
InsertNewestFirst(e, sorted) ==
  LET k == Cardinality({i \in DOMAIN sorted : sorted[i].timestamp > e.timestamp})
  IN  SubSeq(sorted, 1, k) \o <<e>> \o SubSeq(sorted, k + 1, Len(sorted))

RECURSIVE NewestFirst(_)

NewestFirst(s) ==
  IF s = <<>> THEN <<>> ELSE InsertNewestFirst(Head(s), NewestFirst(Tail(s)))

\* The same sort of metric entries: an entry is stamped when it is appended,
\* so the store is in the order of the stamps and newest first is its
\* reverse.
Reversed(s) == [i \in DOMAIN s |-> s[Len(s) + 1 - i]]

\* A sort that is made on the store itself.
StoreSortedInPlace(store, sorted) == sorted

\* The store after a GET that filters and sorts: the handlers sort a copy
\* ([...metrics], [...events]) and filter makes a new array.
StoreAfterSort(store, sorted) == store

\* GET /metrics.  A read: it is not counted among the requests that MaxReq
\* bounds.
GetMetrics(query) ==
  /\ LET wanted(m) == query.service = "" \/ m.service = query.service
         sorted == Reversed(SelectSeq(metrics, wanted))
         filteredMetrics == Take(sorted, query.limit)
     IN  /\ metrics' = StoreAfterSort(metrics, sorted)
         /\ Answer([NewReq("GetMetrics") EXCEPT
               !.body = query,
               !.resp = [code |-> 200, metrics |-> filteredMetrics,
                         count |-> Len(filteredMetrics),
                         totalRecorded |-> Len(metrics)]])
  /\ UNCHANGED <<orders, payments, nreq, ntxn, events, reports>>
  /\ UNCHANGED <<userVars, notificationVars, authVars>>

\* GET /events.  A read, not counted either.
GetEvents(query) ==
  /\ LET wanted(e) == query.type = "" \/ e.eventType = query.type
         sorted == NewestFirst(SelectSeq(events, wanted))
         filteredEvents == Take(sorted, query.limit)
     IN  /\ events' = StoreAfterSort(events, sorted)
         /\ Answer([NewReq("GetEvents") EXCEPT
               !.body = query,
               !.resp = [code |-> 200, events |-> filteredEvents,
                         count |-> Len(filteredEvents),
                         totalRecorded |-> Len(events)]])
  /\ UNCHANGED <<orders, payments, nreq, ntxn, metrics, reports>>
  /\ UNCHANGED <<userVars, notificationVars, authVars>>

RECURSIVE SumOfValues(_)

SumOfValues(s) == IF s = <<>> THEN 0 ELSE Head(s).value + SumOfValues(Tail(s))

\* GET /reports: the metrics of the period (the entries from some position
\* of the store on, older is the number of entries stamped before the period
\* starts) are aggregated by service and metric; the report is stored.
GetReports(query, older) ==
  /\ nreq < MaxReq
  /\ nreq' = nreq + 1
  /\ older \in 0..Len(metrics)
  /\ LET rec == [NewReq("GetReports") EXCEPT !.body = query]
     IN  IF query.type \notin {"daily", "weekly", "monthly"}
         THEN /\ Answer([rec EXCEPT !.resp = [code |-> 400,
                                              error |-> "Invalid report type"]])
              /\ UNCHANGED reports
         ELSE LET wanted(m) == query.service = "" \/ m.service = query.service
                  periodMetrics ==
                    SelectSeq(SubSeq(metrics, older + 1, Len(metrics)), wanted)
                  keys == {<<periodMetrics[i].service, periodMetrics[i].metric>> :
                             i \in DOMAIN periodMetrics}
                  item(key) ==
                    LET of(m) == m.service = key[1] /\ m.metric = key[2]
                        values == SelectSeq(periodMetrics, of)
                    IN  [service |-> key[1], metric |-> key[2],
                         count |-> Len(values), total |-> SumOfValues(values)]
                  report == [id |-> Len(reports) + 1, type |-> query.type,
                             service |-> IF query.service = "" THEN "all"
                                         ELSE query.service,
                             totalEvents |-> Len(periodMetrics),
                             data |-> {item(key) : key \in keys}]
              IN  /\ reports' = Append(reports, report)
                  /\ Answer([rec EXCEPT !.resp = [code |-> 200, report |-> report]])
  /\ UNCHANGED <<orders, payments, ntxn, events, metrics>>
  /\ UNCHANGED <<userVars, notificationVars, authVars>>

----------------------------------------------------------------------------
\* auth-service: POST /login, POST /validate

\* schemas.LoginRequestSchema
ValidateLogin(body) == body.username # "" /\ body.password # ""

\* schemas.ValidateRequestSchema
ValidateToken(token) == token # NoToken

\* generateToken: the token string is made of the user id and the clock
\* reading; it is stored with its expiry.
generateToken(userId) ==
  LET token == [sub |-> userId, iat |-> now]
  IN  [token |-> token,
       tokens |-> [t \in DOMAIN tokens \cup {token} |->
                     IF t = token
                     THEN [userId |-> userId, expiresAt |-> now + TokenLifetime]
                     ELSE tokens[t]]]

\* A validity check that forgets the expiry.
isTokenValidNoExpiry(token) == token \in DOMAIN tokens

isTokenValid(token) ==
  IF token \notin DOMAIN tokens THEN FALSE
  ELSE now < tokens[token].expiresAt

\* The users whose username and password are those of the body.
FoundUsers(body) ==
  {u \in authUsers : u.username = body.username /\ u.password = body.password}

Login(body) ==
  /\ nreq < MaxReq
  /\ nreq' = nreq + 1
  /\ LET rec == [NewReq("Login") EXCEPT !.body = body]
     IN  IF ~ValidateLogin(body)
         THEN /\ Answer([rec EXCEPT !.resp = [code |-> 400, error |-> "Invalid request"]])
              /\ UNCHANGED tokens
         ELSE IF FoundUsers(body) = {}
         THEN /\ Answer([rec EXCEPT !.resp = [code |-> 401,
                                              error |-> "Invalid credentials"]])
              /\ UNCHANGED tokens
         ELSE LET foundUser == CHOOSE u \in FoundUsers(body) : TRUE
                  g == generateToken(foundUser.id)
              IN  /\ tokens' = g.tokens
                  /\ Answer([rec EXCEPT !.userId = foundUser.id, !.resp =
                       [code |-> 200, token |-> g.token, userId |-> foundUser.id,
                        expiresAt |-> now + TokenLifetime]])
  /\ UNCHANGED <<orders, payments, ntxn, now>>
  /\ UNCHANGED <<userVars, notificationVars, analyticsVars>>

ValidateTokenRequest(token) ==
  /\ nreq < MaxReq
  /\ nreq' = nreq + 1
  /\ LET rec == [NewReq("Validate") EXCEPT !.body = token]
     IN  IF ~ValidateToken(token)
         THEN Answer([rec EXCEPT !.resp = [code |-> 400, error |-> "Invalid request"]])
         ELSE IF isTokenValid(token)
         THEN Answer([rec EXCEPT !.resp = [code |-> 200, valid |-> TRUE,
                                          userId |-> tokens[token].userId]])
         ELSE Answer([rec EXCEPT !.resp = [code |-> 200, valid |-> FALSE]])
  /\ UNCHANGED <<orders, payments, ntxn, tokens, now>>
  /\ UNCHANGED <<userVars, notificationVars, analyticsVars>>

\* Time passes on auth-service's clock.
Tick ==
  /\ now < MaxTime
  /\ now' = now + 1
  /\ response' = NoResponse
  /\ UNCHANGED <<orders, payments, req, nreq, ntxn, tokens>>
  /\ UNCHANGED <<userVars, notificationVars, analyticsVars>>

----------------------------------------------------------------------------
\* user-service: GET /users/:id, POST /users

\* schemas.CreateUserRequestSchema
ValidateCreateUser(body) == body.username # "" /\ body.email # ""

generateUserId == UserIds[Cardinality(DOMAIN users) - Cardinality(DOMAIN SeededUsers) + 1]

\* A check that looks at the usernames only.
DuplicateUsernameOnly(body) ==
  IF \E id \in DOMAIN users : users[id].username = body.username
  THEN [code |-> 409, error |-> "Username already exists"]
  ELSE NoResp

\* The loop over the store: the 409 it returns at the first user that has the
\* username or the email, or NoResp.
Duplicate(body) ==
  IF \E id \in DOMAIN users :
       users[id].username = body.username \/ users[id].email = body.email
  THEN [code |-> 409,
        error |-> LET id == CHOOSE i \in DOMAIN users :
                              \/ users[i].username = body.username
                              \/ users[i].email = body.email
                  IN  IF users[id].username = body.username
                      THEN "Username already exists"
                      ELSE "Email already exists"]
  ELSE NoResp

\* POST /users: the handler has no await before its response; the UserCreated
\* event is posted to analytics-service without being awaited.
CreateUser(body) ==
  /\ nreq < MaxReq
  /\ nreq' = nreq + 1
  /\ LET rec == [NewReq("CreateUser") EXCEPT !.body = body]
     IN  IF ~ValidateCreateUser(body)
         THEN /\ Answer([rec EXCEPT !.resp = [code |-> 400, error |-> "Invalid request"]])
              /\ UNCHANGED users
         ELSE IF Duplicate(body) # NoResp
         THEN /\ Answer([rec EXCEPT !.resp = Duplicate(body)])
              /\ UNCHANGED users
         ELSE LET newUser == [id |-> generateUserId, username |-> body.username,
                              email |-> body.email]
              IN  /\ users' = [id \in DOMAIN users \cup {newUser.id} |->
                                 IF id = newUser.id THEN newUser ELSE users[id]]
                  /\ Answer([rec EXCEPT
                       !.userId = newUser.id,
                       !.evt = [eventType |-> EventTypes.USER_CREATED,
                                payload |-> [userId |-> newUser.id,
                                             username |-> newUser.username,
                                             email |-> newUser.email]],
                       !.resp = [code |-> 201, user |-> newUser]])
  /\ UNCHANGED <<orders, payments, ntxn>>
  /\ UNCHANGED <<notificationVars, analyticsVars, authVars>>

\* GET /users/:id
GetUser(id) ==
  /\ nreq < MaxReq
  /\ nreq' = nreq + 1
  /\ LET rec == [NewReq("GetUser") EXCEPT !.userId = id]
     IN  IF id \notin DOMAIN users
         THEN Answer([rec EXCEPT !.resp = [code |-> 404, error |-> "User not found",
                                          userId |-> id]])
         ELSE Answer([rec EXCEPT !.resp = [code |-> 200, user |-> users[id]]])
  /\ UNCHANGED <<orders, payments, ntxn>>
  /\ UNCHANGED <<userVars, notificationVars, analyticsVars, authVars>>

----------------------------------------------------------------------------

Next ==
  \/ \E userId \in UserIdInputs, items \in ItemsInputs : CreateOrder(userId, items)
  \/ \E x \in InFlight, outcome \in {"ok", "notfound", "timeout", "error"} :
       UserLookupReply(x, outcome)
  \/ \E x \in InFlight : AuthorizeFromOrder(x)
  \/ \E x, a \in InFlight : PaymentReply(x, a)
  \/ \E x \in InFlight : PaymentNoReply(x)
  \/ \E id \in DOMAIN orders \cup {0}, status \in StatusInputs : UpdateStatus(id, status)
  \/ \E body \in PaymentInputs : AuthorizeFromClient(body)
  \/ \E x \in InFlight, success \in BOOLEAN : PaymentProcessed(x, success)
  \/ \E id \in DOMAIN payments \cup {0} : Refund(id)
  \/ \E x \in InFlight : RefundProcessed(x)
  \/ \E x \in InFlight, outcome \in DeliveryOutcomes : NotificationDelivered(x, outcome)
  \/ \E x \in InFlight, outcome \in DeliveryOutcomes : AnalyticsDelivered(x, outcome)
  \/ \E body \in NotifyInputs : Notify(body)
  \/ \E x \in InFlight, outcome \in {"ok", "notfound", "timeout", "error"} :
       NotifyUserFetched(x, outcome)
  \/ \E x \in InFlight, success \in BOOLEAN : NotifySent(x, success)

Spec == Init /\ [][Next]_vars

\* POST /orders with the services it calls.  Each of its calls ends: by a
\* reply, by an error or by its timeout (5 s for user-service and for each
\* post of emitEvent, 10 s for payment-service).  Nothing is assumed of
\* payment-service: it may never process a request.
NextOrder ==
  \/ \E userId \in UserIdInputs, items \in ItemsInputs : CreateOrder(userId, items)
  \/ \E x \in InFlight, outcome \in {"ok", "notfound", "timeout", "error"} :
       UserLookupReply(x, outcome)
  \/ \E x \in InFlight : AuthorizeFromOrder(x)
  \/ \E x, a \in InFlight : PaymentReply(x, a)
  \/ \E x \in InFlight : PaymentNoReply(x)
  \/ \E x \in InFlight, success \in BOOLEAN : PaymentProcessed(x, success)
  \/ \E x \in InFlight, outcome \in DeliveryOutcomes : NotificationDelivered(x, outcome)
  \/ \E x \in InFlight, outcome \in DeliveryOutcomes : AnalyticsDelivered(x, outcome)

FairOrder ==
  /\ WF_vars(\E x \in InFlight, outcome \in {"ok", "notfound", "timeout", "error"} :
               UserLookupReply(x, outcome))
  /\ WF_vars(\E x \in InFlight :
               PaymentNoReply(x) \/ \E a \in InFlight : PaymentReply(x, a))
  /\ WF_vars(\E x \in InFlight, outcome \in DeliveryOutcomes :
               x.kind = "CreateOrder" /\ NotificationDelivered(x, outcome))
  /\ WF_vars(\E x \in InFlight, outcome \in DeliveryOutcomes :
               x.kind = "CreateOrder" /\ AnalyticsDelivered(x, outcome))

SpecOrderLive == Init /\ [][NextOrder]_vars /\ FairOrder

\* payment-service on its own: its handlers called by any client.  The
\* payment store is written by these handlers only.
NextPayment ==
  \/ \E body \in PaymentInputs : AuthorizeFromClient(body)
  \/ \E x \in InFlight, success \in BOOLEAN : PaymentProcessed(x, success)
  \/ \E id \in DOMAIN payments \cup {0} : Refund(id)
  \/ \E x \in InFlight : RefundProcessed(x)
  \/ \E x \in InFlight, outcome \in DeliveryOutcomes : NotificationDelivered(x, outcome)
  \/ \E x \in InFlight, outcome \in DeliveryOutcomes : AnalyticsDelivered(x, outcome)

SpecPayment == Init /\ [][NextPayment]_vars

\* payment-service with its timers and calls: the timer of processPayment and
\* of the refund fires, and each post of emitEvent settles (it has a timeout).
FairPayment ==
  /\ WF_vars(\E x \in InFlight, success \in BOOLEAN : PaymentProcessed(x, success))
  /\ WF_vars(\E x \in InFlight : RefundProcessed(x))
  /\ WF_vars(\E x \in InFlight, outcome \in DeliveryOutcomes :
               NotificationDelivered(x, outcome))
  /\ WF_vars(\E x \in InFlight, outcome \in DeliveryOutcomes :
               AnalyticsDelivered(x, outcome))

SpecPaymentLive == Init /\ [][NextPayment]_vars /\ FairPayment

\* notification-service on its own: POST /notify and POST /events called by
\* any client.
NextNotification ==
  \/ \E body \in NotifyInputs : Notify(body)
  \/ \E x \in InFlight, outcome \in {"ok", "notfound", "timeout", "error"} :
       NotifyUserFetched(x, outcome)
  \/ \E x \in InFlight, success \in BOOLEAN : NotifySent(x, success)
  \/ \E event \in NotificationEvents : ReceiveEvent(event)
  \/ \E x \in InFlight, outcome \in {"ok", "notfound", "timeout", "error"} :
       EventOrderFetched(x, outcome)
  \/ \E x \in InFlight, outcome \in {"ok", "notfound", "timeout", "error"} :
       EventUserFetched(x, outcome)
  \/ \E x \in InFlight, success \in BOOLEAN : EventNotificationSent(x, success)

SpecNotification == Init /\ [][NextNotification]_vars

\* notification-service with its timers and calls: the timer of
\* sendNotification fires and each lookup settles (it has a timeout).
FairNotification ==
  /\ WF_vars(\E x \in InFlight, success \in BOOLEAN : NotifySent(x, success))
  /\ WF_vars(\E x \in InFlight, success \in BOOLEAN :
               EventNotificationSent(x, success))
  /\ WF_vars(\E x \in InFlight, outcome \in {"ok", "notfound", "timeout", "error"} :
               NotifyUserFetched(x, outcome))
  /\ WF_vars(\E x \in InFlight, outcome \in {"ok", "notfound", "timeout", "error"} :
               EventOrderFetched(x, outcome))
  /\ WF_vars(\E x \in InFlight, outcome \in {"ok", "notfound", "timeout", "error"} :
               EventUserFetched(x, outcome))

SpecNotificationLive == Init /\ [][NextNotification]_vars /\ FairNotification

\* POST /orders with payment-service and notification-service: the events
\* that the two services emit reach POST /events of notification-service,
\* whose handlers look the order up in order-service.  A post is answered
\* only when it has arrived.
NextFlow ==
  \/ \E userId \in UserIdInputs, items \in ItemsInputs :
       nreq < MaxOrders /\ CreateOrder(userId, items)
  \/ \E x \in InFlight, outcome \in {"ok", "notfound", "timeout", "error"} :
       UserLookupReply(x, outcome)
  \/ \E x \in InFlight : AuthorizeFromOrder(x)
  \/ \E x, a \in InFlight : PaymentReply(x, a)
  \/ \E x \in InFlight : PaymentNoReply(x)
  \/ \E x \in InFlight, success \in BOOLEAN : PaymentProcessed(x, success)
  \/ \E x \in InFlight : EventArrives(x)
  \/ \E x \in InFlight, outcome \in DeliveryOutcomes :
       (outcome = "ok" => x.delivered) /\ NotificationDelivered(x, outcome)
  \/ \E x \in InFlight, outcome \in DeliveryOutcomes : AnalyticsDelivered(x, outcome)
  \/ \E x \in InFlight, outcome \in {"ok", "notfound", "timeout", "error"} :
       EventOrderFetched(x, outcome)
  \/ \E x \in InFlight, outcome \in {"ok", "notfound", "timeout", "error"} :
       EventUserFetched(x, outcome)
  \/ \E x \in InFlight, success \in BOOLEAN : EventNotificationSent(x, success)

SpecFlow == Init /\ [][NextFlow]_vars

\* analytics-service on its own: events and metrics posted by any client.
NextAnalytics ==
  \/ \E event \in EventInputs : Ingest(event)
  \/ \E body \in MetricInputs : PostMetric(body)
  \/ \E query \in MetricQueries : GetMetrics(query)
  \/ \E query \in EventQueries : GetEvents(query)
  \/ \E query \in ReportQueries, older \in 0..MaxReq : GetReports(query, older)

SpecAnalytics == Init /\ [][NextAnalytics]_vars

\* auth-service on its own.
NextAuth ==
  \/ \E body \in LoginInputs : Login(body)
  \/ \E token \in DOMAIN tokens \cup {ForgedToken, NoToken} :
       ValidateTokenRequest(token)
  \/ Tick

SpecAuth == Init /\ [][NextAuth]_vars

\* user-service on its own.
NextUser ==
  \/ \E body \in CreateUserInputs : CreateUser(body)
  \/ \E id \in DOMAIN users \cup UserIdInputs : GetUser(id)

SpecUser == Init /\ [][NextUser]_vars

----------------------------------------------------------------------------
\* Properties

\* The requests of the state: those in flight and the one just answered.
Requests == InFlight \cup {response}

\* A record that is in flight after the step and was not before it.
New(y) == y \in BagToSet(req') /\ CopiesIn(y, req') > CopiesIn(y, req)

\* The step is a run of the handler that x is suspended in.
Resumed(x) == x \in InFlight /\ CopiesIn(x, req') < CopiesIn(x, req)

InvalidUserError == [code |-> 400, error |-> "Invalid user"]
NotFoundError(resp) == resp.code = 404
InvalidStateError(resp) == resp.code = 400 /\ resp.error = "Cannot refund"

\* C1: when the user lookup of a CreateOrder fails (not found, timeout,
\* transport error), the step that handles the failure answers
\* InvalidUserError and leaves the order store as it was; a lookup goes on to
\* store an order only with a found user.
C1_InvalidUserNoOrder ==
  [][\A x \in InFlight :
       (x.pc = "lookup" /\ Resumed(x)) =>
         \/ \E y \in BagToSet(req') :
              /\ New(y) /\ y.pc = "payment"
              /\ y.lookup = "ok" /\ y.userId \in DOMAIN users
         \/ /\ orders' = orders
            /\ response'.kind = "CreateOrder"
            /\ response'.lookup \in {"notfound", "timeout", "error"}
            /\ response'.resp = InvalidUserError
            /\ response'.orderId = 0
            /\ ~ \E y \in BagToSet(req') : New(y)]_vars

C1_Witness ==
  /\ response.kind = "CreateOrder"
  /\ response.lookup = "notfound"
  /\ response.resp = InvalidUserError
  /\ Cardinality(DOMAIN orders) = 2

\* The CreateOrder just answered had a valid user and no payment result: its
\* payment authorization failed (decline, timeout or transport error).
PaymentStepFailed ==
  /\ response.kind = "CreateOrder"
  /\ response.lookup = "ok"
  /\ response.payment = NoPayment

\* C2 as stated: when the payment authorization of a CreateOrder fails, the
\* caller receives a success response carrying the order, and the order is
\* persisted with status pending and paymentId null.
C2_PendingAfterFailedPayment ==
  PaymentStepFailed =>
    /\ response.resp.code = 201
    /\ response.orderId \in DOMAIN orders
    /\ response.resp.order.id = response.orderId
    /\ response.resp.order.paymentId = 0
    /\ response.resp.order.status = "pending"

\* C2 amended: when the payment authorization of a CreateOrder fails, the
\* caller receives a success response carrying the persisted order with
\* paymentId null, and with status pending unless the order was written
\* again after its creation (by an UpdateStatus during the authorization or
\* the event emission).
C2_NoRollback ==
  PaymentStepFailed =>
    /\ response.resp.code = 201
    /\ response.orderId \in DOMAIN orders
    /\ response.resp.order.id = response.orderId
    /\ response.resp.order.paymentId = 0
    /\ \/ response.resp.order.status = "pending"
       \/ response.resp.order.updatedAt > 0

\* The authorization was declined (402) and the order is returned pending.
C2_Witness ==
  /\ PaymentStepFailed
  /\ response.resp.code = 201
  /\ response.resp.order.status = "pending"
  /\ response.resp.order.updatedAt = 0
  /\ \E p \in DOMAIN payments :
       payments[p].orderId = response.orderId /\ payments[p].status = "failed"

\* C3: when the payment authorization of a CreateOrder succeeds, the order
\* returned (the stored one) has status confirmed and a paymentId equal to
\* the id of the payment returned in the same response.
C3_ConfirmedWithPayment ==
  (response.kind = "CreateOrder" /\ response.payment # NoPayment) =>
    /\ response.resp.code = 201
    /\ response.resp.order.status = "confirmed"
    /\ response.resp.order.paymentId # 0
    /\ response.resp.order.paymentId = response.resp.payment.id

AllowedTransitions ==
  { <<"pending", "confirmed">>, <<"confirmed", "shipped">>,
    <<"shipped", "delivered">>, <<"pending", "cancelled">>,
    <<"confirmed", "cancelled">> }

\* C4: an UpdateStatus that succeeds (it writes the order) makes one of the
\* transitions pending->confirmed, confirmed->shipped, shipped->delivered,
\* pending->cancelled, confirmed->cancelled.
C4_OnlyAllowedTransitions ==
  [][\A id \in DOMAIN orders :
       (nreq' = nreq + 1 /\ orders'[id] # orders[id]) =>
         <<orders[id].status, orders'[id].status>> \in AllowedTransitions]_vars

\* The Refund requests on payment p that have written the refund.
Refunded(p) ==
  {x \in Requests : x.kind = "Refund" /\ x.paymentId = p /\ x.evt # NoEvent}

\* C5: of the Refund requests on one payment, at most one succeeds: the
\* payment is written as refunded once, with one refund transaction
\* reference and one refund event.
C5_AtMostOneRefund ==
  \A p \in DOMAIN payments : Cardinality(Refunded(p)) <= 1

\* The step receives a Refund request for id.
RefundArrives(id) ==
  /\ nreq' = nreq + 1
  /\ \/ req' = req /\ response'.kind = "Refund" /\ response'.paymentId = id
     \/ \E y \in BagToSet(req') :
          New(y) /\ y.kind = "Refund" /\ y.paymentId = id

\* C6: a Refund of an unknown id fails with NotFoundError, a Refund of a
\* payment whose status is pending, failed or refunded fails with
\* InvalidStateError; in both cases the payment store is unchanged and no
\* event is emitted.
C6_RefundRefused ==
  [][\A id \in DOMAIN payments \cup {0} :
       (/\ RefundArrives(id)
        /\ \/ id \notin DOMAIN payments
           \/ payments[id].status \in {"pending", "failed", "refunded"}) =>
         /\ payments' = payments
         /\ req' = req
         /\ response'.kind = "Refund" /\ response'.paymentId = id
         /\ IF id \in DOMAIN payments
            THEN InvalidStateError(response'.resp)
            ELSE NotFoundError(response'.resp)
         /\ response'.evt = NoEvent
         /\ response'.notification = "none"
         /\ response'.analytics = "none"]_vars

C6_Witness ==
  /\ response.kind = "Refund"
  /\ InvalidStateError(response.resp)
  /\ response.evt = NoEvent
  /\ response.paymentId \in DOMAIN payments
  /\ payments[response.paymentId].status = "refunded"

PaymentTransitions ==
  { <<"pending", "completed">>, <<"pending", "failed">>,
    <<"completed", "refunded">> }

\* C7: a payment's status changes only along pending->completed,
\* pending->failed and completed->refunded, so a failed or refunded payment
\* keeps its status.
C7_PaymentStateMachine ==
  [][\A p \in DOMAIN payments :
       payments'[p].status # payments[p].status =>
         <<payments[p].status, payments'[p].status>> \in PaymentTransitions]_vars

\* A Refund was asked for a failed payment, which is still failed.
C7_Witness ==
  /\ response.kind = "Refund"
  /\ response.paymentId \in DOMAIN payments
  /\ payments[response.paymentId].status = "failed"

\* The response of a handler whose event deliveries both succeeded.
SuccessCode(y) ==
  CASE y.kind = "CreateOrder" -> 201
    [] y.kind = "UpdateStatus" -> 200
    [] y.kind = "Refund" -> 200
    [] y.kind = "Authorize" ->
         IF payments[y.paymentId].status = "failed" THEN 402 ELSE 201

\* C8: for every event published, the delivery to analytics is attempted
\* once the delivery to notification has settled, failed or not, and the
\* publishing operation answers as it does when both deliveries succeed:
\* with its success status and the entity it wrote.
C8_DeliveryFailureIsolated ==
  /\ \A x \in InFlight :
       /\ x.pc # "rejected"
       /\ x.pc = "emit" =>
            \/ x.notification = "pending" /\ x.analytics = "none"
            \/ x.notification \in DeliveryOutcomes /\ x.analytics = "pending"
  /\ response.evt # NoEvent =>
       /\ response.notification \in DeliveryOutcomes
       /\ response.analytics \in DeliveryOutcomes
       /\ response.resp.code = SuccessCode(response)
       /\ response.kind \in {"CreateOrder", "UpdateStatus"} =>
            response.resp.order.id = response.orderId
       /\ response.kind = "Authorize" =>
            response.resp.data.id = response.paymentId
       /\ response.kind = "Refund" =>
            response.resp.payment.id = response.paymentId

\* The delivery to notification failed, the one to analytics was made, and
\* the order was returned with 201.
C8_Witness ==
  /\ response.kind = "CreateOrder"
  /\ response.evt # NoEvent
  /\ response.notification = "failed"
  /\ response.analytics = "ok"
  /\ response.resp.code = 201

\* C9: a handler that emits an event answers without waiting for the
\* deliveries: while a delivery attempt is outstanding the response has been
\* sent.
C9_ResponseNotBlocked ==
  \A x \in InFlight :
    (x.notification = "pending" \/ x.analytics = "pending") => x.resp # NoResp

\* C10: the deliveries of one event are concurrent: while the delivery to
\* notification is outstanding, the delivery to analytics has been started.
C10_ConcurrentDispatch ==
  \A x \in InFlight : x.notification = "pending" => x.analytics # "none"

\* C11: when fetchUser cannot resolve the userId of a Notify (user not found,
\* timeout, transport error), the step that handles it answers 404 User not
\* found and leaves the notification store as it was; a Notify goes on to
\* store a notification only with a user that user-service returned.
C11_UnknownUserNoNotification ==
  [][\A x \in InFlight :
       (x.kind = "Notify" /\ x.pc = "fetchUser" /\ Resumed(x)) =>
         \/ \E y \in BagToSet(req') :
              /\ New(y) /\ y.pc = "sending"
              /\ y.lookup = "ok" /\ y.userId \in DOMAIN users
         \/ /\ notifications' = notifications
            /\ response'.kind = "Notify"
            /\ response'.lookup \in {"notfound", "timeout", "error"}
            /\ NotFoundError(response'.resp)
            /\ response'.notificationId = 0
            /\ ~ \E y \in BagToSet(req') : New(y)]_vars

\* A Notify for the unknown usr-404 was answered 404 and nothing is stored.
C11_Witness ==
  /\ response.kind = "Notify"
  /\ response.userId \notin DOMAIN users
  /\ response.lookup = "notfound"
  /\ NotFoundError(response.resp)
  /\ notifications = <<>>

\* Sum over the line items of quantity x unitPrice.
RECURSIVE LineItemsSum(_)
LineItemsSum(items) ==
  IF items = <<>> THEN 0
  ELSE Head(items).quantity * Head(items).unitPrice + LineItemsSum(Tail(items))

\* C12: every order of the store has totalAmount equal to the sum over its
\* line items of quantity x unitPrice, and no step changes the items or the
\* totalAmount of an order that is in the store.
C12_TotalIsSumOfLineItems ==
  /\ [](\A id \in DOMAIN orders :
          orders[id].totalAmount = LineItemsSum(orders[id].items))
  /\ [][\A id \in DOMAIN orders :
           /\ id \in DOMAIN orders'
           /\ orders'[id].items = orders[id].items
           /\ orders'[id].totalAmount = orders[id].totalAmount]_vars

\* A CreateOrder was answered with its order of 2 x 29.99, whose status an
\* UpdateStatus has written since its creation.
C12_Witness ==
  /\ response.kind = "CreateOrder"
  /\ response.resp.code = 201
  /\ response.resp.order.items # <<>>
  /\ response.resp.order.totalAmount = 5998
  /\ orders[response.orderId].status = "shipped"

\* C13: a CreateOrder whose order record was persisted is answered with the
\* success status 201 and that order, whatever the payment authorization and
\* the event deliveries did; none of its handlers ends in an error.
C13_SuccessOncePersisted ==
  /\ (response.kind = "CreateOrder" /\ response.orderId # 0) =>
       /\ response.resp.code = 201
       /\ response.orderId \in DOMAIN orders
       /\ response.resp.order.id = response.orderId
  /\ \A x \in InFlight :
       (x.kind = "CreateOrder" /\ x.orderId # 0) =>
         x.pc \in {"payment", "emit"} /\ x.orderId \in DOMAIN orders

\* The payment authorization failed and both event deliveries failed; the
\* order was returned with 201.
C13_Witness ==
  /\ response.kind = "CreateOrder"
  /\ response.orderId # 0
  /\ response.payment = NoPayment
  /\ response.notification = "failed"
  /\ response.analytics = "failed"
  /\ response.resp.code = 201

ValidationError(resp) == resp.code = 400 /\ resp.error = "Invalid request"
ValidationResp == [code |-> 400, error |-> "Invalid request"]

\* C14: a step that rejects a request with ValidationError (POST /orders,
\* POST /payments, POST /notify) leaves the order, payment and notification
\* stores as they were, emits no event and leaves no handler running.
C14_ValidationBeforeMutation ==
  [][ValidationError(response'.resp) =>
       /\ response'.kind \in {"CreateOrder", "Authorize", "Notify"}
       /\ orders' = orders
       /\ payments' = payments
       /\ notifications' = notifications
       /\ response'.evt = NoEvent
       /\ response'.notification = "none"
       /\ response'.analytics = "none"
       /\ req' = req]_vars

\* A POST /payments with an unsupported currency was rejected; the payment
\* store holds the pre-seeded payment only.
C14_Witness ==
  /\ response.kind = "Authorize"
  /\ ValidationError(response.resp)
  /\ response.body.currency = "JPY"
  /\ DOMAIN payments = {1}

\* C15: the event of a Refund that wrote the refund is of kind
\* PaymentRefunded and carries the id of the refunded payment and its order id.
C15_RefundEmitsPaymentRefunded ==
  \A x \in Requests :
    (x.kind = "Refund" /\ x.evt # NoEvent) =>
      /\ x.evt.eventType = "PaymentRefunded"
      /\ x.evt.payload.paymentId = x.paymentId
      /\ x.evt.payload.orderId = payments[x.paymentId].orderId

\* C16: the OrderUpdated event that a successful UpdateStatus emits carries
\* as previousStatus the status the order had before the step and as status
\* the status the step persisted.
C16_PreviousStatusInEvent ==
  [][\A y \in BagToSet(req') :
       (New(y) /\ y.kind = "UpdateStatus" /\ y.evt # NoEvent) =>
         /\ y.evt.eventType = EventTypes.ORDER_UPDATED
         /\ y.evt.payload.status = orders'[y.orderId].status
         /\ y.evt.payload.previousStatus = orders[y.orderId].status]_vars

\* C17: every POST /events with a Domain Event (a kind and a timestamp, of
\* whatever kind) is answered with success, stores the event and appends one
\* metric entry, keyed by a service name and a metric name.
C17_IngestEveryKind ==
  [][(/\ response'.kind = "Ingest"
      /\ response'.body.eventType \in
           {"OrderCreated", "OrderUpdated", "PaymentProcessed",
            "PaymentRefunded", "UserCreated"}
      /\ response'.body.timestamp # 0
      /\ response'.body.payload # NoPayload) =>
       /\ response'.resp.code = 200
       /\ events' = Append(events, response'.body)
       /\ Len(metrics') = Len(metrics) + 1
       /\ metrics'[Len(metrics')].service # ""
       /\ metrics'[Len(metrics')].metric # ""]_vars

\* C18: an order has at most one payment: no two records of the payment
\* store carry the same orderId.
C18_OnePaymentPerOrder ==
  \A p, q \in DOMAIN payments :
    payments[p].orderId = payments[q].orderId => p = q

\* C19: POST /validate answers valid = true with userId u exactly for a
\* token that a successful POST /login of u returned and that has not
\* expired, and valid = false without userId for every other token.  Tokens
\* enter the store only by a successful login, which stores the token it
\* returns for the user whose credentials were given; a login answered 401
\* stores none.
C19_ValidateIffIssuedAndFresh ==
  [][/\ response'.kind = "Login" =>
          IF response'.resp.code = 200
          THEN LET t == response'.resp.token
               IN  /\ \E u \in authUsers :
                        /\ u.username = response'.body.username
                        /\ u.password = response'.body.password
                        /\ u.id = response'.resp.userId
                   /\ t.sub = response'.resp.userId
                   /\ DOMAIN tokens' = DOMAIN tokens \cup {t}
                   /\ tokens'[t] = [userId |-> response'.resp.userId,
                                    expiresAt |-> now + TokenLifetime]
                   /\ \A o \in DOMAIN tokens \ {t} : tokens'[o] = tokens[o]
          ELSE tokens' = tokens
     /\ response'.kind # "Login" => tokens' = tokens
     /\ (response'.kind = "Validate" /\ response'.body # NoToken) =>
          LET t == response'.body
          IN  /\ response'.resp.code = 200
              /\ IF t \in DOMAIN tokens /\ now < tokens[t].expiresAt
                 THEN /\ response'.resp.valid
                      /\ response'.resp.userId = tokens[t].userId
                      /\ response'.resp.userId = t.sub
                 ELSE /\ ~response'.resp.valid
                      /\ "userId" \notin DOMAIN response'.resp]_vars

\* A token of usr-002 was validated one clock unit after its login.
C19_Witness ==
  /\ response.kind = "Validate"
  /\ response.resp.code = 200
  /\ response.resp.valid
  /\ response.resp.userId = "usr-002"
  /\ now = response.body.iat + 1

\* C20: a POST /users whose username or email is that of a user of the
\* store is answered 409 and creates no user; in every state no two users of
\* the store share a username or an email.
C20_UniqueUsernameAndEmail ==
  /\ [](\A a, b \in DOMAIN users :
          (users[a].username = users[b].username
             \/ users[a].email = users[b].email) => a = b)
  /\ [][(/\ response'.kind = "CreateUser"
          /\ \E id \in DOMAIN users :
               \/ users[id].username = response'.body.username
               \/ users[id].email = response'.body.email) =>
           /\ response'.resp.code = 409
           /\ users' = users
           /\ response'.evt = NoEvent]_vars

\* alice_wonder was created, and a second user with her email was refused.
C20_Witness ==
  /\ response.kind = "CreateUser"
  /\ response.body.username = "alice_two"
  /\ response.resp.code = 409
  /\ response.resp.error = "Email already exists"
  /\ Cardinality(DOMAIN users) = 4

\* The record that the handler of x has become in the step: the one in flight
\* or the one just answered.
Successors(x) ==
  {y \in BagToSet(req') : New(y) /\ y.kind = x.kind}
    \cup (IF response'.kind = x.kind THEN {response'} ELSE {})

\* C21: a CreateOrder emits no event before its payment step has ended and
\* none when it fails (validation error, invalid user); the step that ends
\* the payment step emits OrderCreated, whose payload status and paymentId
\* are those of the stored order after that step; the event of a CreateOrder
\* stays the same one until the response, so each persisted order has exactly
\* one.
C21_OneOrderCreatedAfterPayment ==
  /\ [](\A x \in Requests :
          x.kind = "CreateOrder" =>
            /\ x.pc \in {"lookup", "payment"} => x.evt = NoEvent
            /\ (x.pc = "done" /\ x.resp.code = 400) =>
                 x.evt = NoEvent /\ x.orderId = 0
            /\ (x.pc = "emit" \/ (x.orderId # 0 /\ x.pc = "done")) =>
                 /\ x.evt.eventType = "OrderCreated"
                 /\ x.evt.payload.orderId = x.orderId)
  /\ [][\A x \in InFlight :
           (x.kind = "CreateOrder" /\ Resumed(x)) =>
             /\ Successors(x) # {}
             /\ x.pc = "payment" =>
                  \E y \in Successors(x) :
                    \/ y = [x EXCEPT !.sent = TRUE]
                    \/ /\ y.pc = "emit"
                       /\ y.evt.eventType = "OrderCreated"
                       /\ y.evt.payload.status = orders'[x.orderId].status
                       /\ y.evt.payload.paymentId = orders'[x.orderId].paymentId
                       /\ ~ \E a \in BagToSet(req') :
                              a.kind = "Authorize" /\ a.pc = "replied"
                                /\ a.caller = x.orderId
             /\ x.pc = "emit" => \E y \in Successors(x) : y.evt = x.evt]_vars

\* A CreateOrder whose payment completed was answered: its event says
\* confirmed and names the payment the stored order names.
C21_Witness ==
  /\ response.kind = "CreateOrder"
  /\ response.resp.code = 201
  /\ response.evt.eventType = "OrderCreated"
  /\ response.evt.payload.status = "confirmed"
  /\ response.evt.payload.paymentId # 0
  /\ response.evt.payload.paymentId = orders[response.orderId].paymentId

\* The ids of the payments of one behaviour: the pre-seeded one and one for
\* each request.
PaymentIds == 1..(MaxReq + 1)

\* C22: an accepted Authorize stores a new payment with status pending; the
\* step that resumes it writes completed or failed and builds its one
\* PaymentProcessed event, whose status, amount and transaction reference
\* are those of the stored record, and which stays the same one until the
\* response; every pending payment is eventually completed or failed.
C22_AuthorizeSettlesAndEmits ==
  /\ [][\A y \in BagToSet(req') :
           (New(y) /\ y.kind = "Authorize" /\ y.pc = "processing") =>
             /\ y.paymentId \notin DOMAIN payments
             /\ y.paymentId \in DOMAIN payments'
             /\ payments'[y.paymentId].status = "pending"
             /\ payments'[y.paymentId].orderId = y.body.orderId
             /\ y.evt = NoEvent]_vars
  /\ [][\A x \in InFlight :
           (x.kind = "Authorize" /\ Resumed(x)) =>
             /\ x.pc = "processing" =>
                  /\ payments[x.paymentId].status = "pending"
                  /\ payments'[x.paymentId].status \in {"completed", "failed"}
                  /\ \E y \in Successors(x) :
                       /\ y.pc = "emit"
                       /\ y.evt.eventType = "PaymentProcessed"
                       /\ y.evt.payload.paymentId = x.paymentId
                       /\ y.evt.payload.status = payments'[x.paymentId].status
                       /\ y.evt.payload.amount = payments'[x.paymentId].amount
                       /\ y.evt.payload.transactionId =
                            payments'[x.paymentId].transactionId
             /\ x.pc = "emit" => \E y \in Successors(x) : y.evt = x.evt]_vars
  /\ \A p \in PaymentIds :
       (p \in DOMAIN payments /\ payments[p].status = "pending")
         ~> (p \in DOMAIN payments /\ payments[p].status \in {"completed", "failed"})

\* A declined payment was answered 402: its event says failed and carries no
\* transaction reference, as the stored record.
C22_Witness ==
  /\ response.kind = "Authorize"
  /\ response.resp.code = 402
  /\ response.evt.eventType = "PaymentProcessed"
  /\ response.evt.payload.status = "failed"
  /\ response.evt.payload.transactionId = 0
  /\ payments[response.paymentId].status = "failed"

\* C23: in every state a payment has a transaction reference only when its
\* status is completed or refunded and a failure reason only when its status
\* is failed; a pending payment has neither.
C23_ReferenceAndReasonByStatus ==
  \A p \in DOMAIN payments :
    /\ payments[p].transactionId # 0 =>
         payments[p].status \in {"completed", "refunded"}
    /\ payments[p].error # "" => payments[p].status = "failed"
    /\ payments[p].status = "pending" =>
         payments[p].transactionId = 0 /\ payments[p].error = ""

\* The store holds a refunded payment with its transaction reference and a
\* failed one with its failure reason.
C23_Witness ==
  /\ \E p \in DOMAIN payments :
       payments[p].status = "refunded" /\ payments[p].transactionId # 0
  /\ \E p \in DOMAIN payments :
       payments[p].status = "failed" /\ payments[p].error # ""

\* C24: when fetchUser cannot resolve the userId of an OrderCreated event
\* (user not found, timeout, transport error), the step that handles it
\* leaves the notification store as it was and ends the processing of the
\* event: no handler and no lookup is left running for it.  handleOrderCreated
\* goes on to store a notification only with a user that user-service
\* returned.
C24_UnresolvedUserDropsEvent ==
  [][\A x \in InFlight :
       (/\ x.kind = "Event" /\ x.body.eventType = "OrderCreated"
        /\ x.pc = "fetchUser" /\ Resumed(x)) =>
         \/ /\ x.userId \in DOMAIN users
            /\ \E y \in BagToSet(req') :
                 /\ New(y) /\ y.pc = "sending" /\ y.lookup = "ok"
                 /\ Len(notifications') = Len(notifications) + 1
         \/ /\ x.userId \in DOMAIN users
            /\ handled'.pc = "error" /\ handled'.lookup = "ok"
            /\ notifications' = notifications
            /\ ~ \E y \in BagToSet(req') : New(y)
         \/ /\ notifications' = notifications
            /\ handled'.body = x.body
            /\ handled'.pc = "user not found"
            /\ handled'.lookup \in {"notfound", "timeout", "error"}
            /\ req' = req (-) SetToBag({x})]_vars

\* The OrderCreated event of the unknown usr-404 was dropped after its lookup
\* and nothing is stored or running.
C24_Witness ==
  /\ handled.kind = "Event"
  /\ handled.body.eventType = "OrderCreated"
  /\ handled.userId \notin DOMAIN users
  /\ handled.pc = "user not found"
  /\ handled.lookup = "notfound"
  /\ notifications = <<>>
  /\ req = EmptyBag

\* C25: a PaymentProcessed event is processed by looking up the order of the
\* payload's orderId; the notification stored is addressed to the userId of
\* that order, with the payment-confirmed subject and message exactly when
\* the payload status is completed and the payment-failed ones otherwise;
\* when the order or its user is not resolved the notification store is
\* unchanged and the processing ends.
C25_PaymentNotificationToOrderOwner ==
  [][\A x \in InFlight :
       (x.kind = "Event" /\ x.body.eventType = "PaymentProcessed" /\ Resumed(x)) =>
         LET orderId == x.body.payload.orderId
         IN  /\ x.pc \in {"fetchOrder", "fetchUser", "sending"}
             /\ x.pc = "fetchOrder" =>
                  /\ x.orderId = orderId
                  /\ notifications' = notifications
                  /\ \/ /\ orderId \in DOMAIN orders
                        /\ \E y \in BagToSet(req') :
                             /\ New(y) /\ y.pc = "fetchUser"
                             /\ y.userId = orders[orderId].userId
                     \/ /\ handled'.body = x.body
                        /\ handled'.pc = "order not found"
                        /\ req' = req (-) SetToBag({x})
             /\ x.pc = "fetchUser" =>
                  \/ /\ orderId \in DOMAIN orders
                     /\ x.userId \in DOMAIN users
                     /\ \E y \in BagToSet(req') : New(y) /\ y.pc = "sending"
                     /\ Len(notifications') = Len(notifications) + 1
                     /\ LET n == notifications'[Len(notifications')]
                        IN  /\ SubSeq(notifications', 1, Len(notifications)) = notifications
                            /\ n.userId = orders[orderId].userId
                            /\ n.relatedOrderId = orderId
                            /\ IF x.body.payload.status = "completed"
                               THEN /\ n.subject = "Payment Confirmed - KaChow"
                                    /\ n.message.text = "payment processed"
                               ELSE /\ n.subject = "Payment Failed - Action Required"
                                    /\ n.message.text = "payment not processed"
                  \/ /\ notifications' = notifications
                     /\ handled'.body = x.body
                     /\ handled'.pc \in {"user not found", "error"}
                     /\ req' = req (-) SetToBag({x})]_vars

\* The failed payment of ord-002 produced the payment-failed notification
\* for usr-002, the user of that order.
C25_Witness ==
  \E i \in DOMAIN notifications :
    /\ "eventType" \in DOMAIN notifications[i]
    /\ notifications[i].eventType = "PaymentProcessed"
    /\ notifications[i].relatedOrderId = 2
    /\ notifications[i].userId = orders[2].userId
    /\ notifications[i].subject = "Payment Failed - Action Required"

\* C26: a notification enters the store with status pending and without a
\* sent timestamp; its status changes only from pending, to sent or to
\* failed, and a sent or failed record is never written again; in every
\* state a record with a sent timestamp has status sent.
C26_NotificationStateMachine ==
  /\ [](\A i \in DOMAIN notifications :
          /\ notifications[i].status \in {"pending", "sent", "failed"}
          /\ notifications[i].sentAt = "set" => notifications[i].status = "sent"
          /\ notifications[i].status = "pending" => notifications[i].sentAt = "null")
  /\ [][/\ DOMAIN notifications \subseteq DOMAIN notifications'
        /\ \A i \in DOMAIN notifications' \ DOMAIN notifications :
             /\ notifications'[i].status = "pending"
             /\ notifications'[i].sentAt = "null"
        /\ \A i \in DOMAIN notifications :
             /\ notifications'[i].status # notifications[i].status =>
                  /\ notifications[i].status = "pending"
                  /\ notifications'[i].status \in {"sent", "failed"}
             /\ notifications[i].status \in {"sent", "failed"} =>
                  notifications'[i] = notifications[i]]_vars

\* The notification of an event failed and carries no timestamp; the one of
\* a Notify was sent and carries one.
C26_Witness ==
  \E i, j \in DOMAIN notifications :
    /\ "eventType" \in DOMAIN notifications[i]
    /\ notifications[i].status = "failed"
    /\ notifications[i].sentAt = "undefined"
    /\ "eventType" \notin DOMAIN notifications[j]
    /\ notifications[j].status = "sent"
    /\ notifications[j].sentAt = "set"

\* The ids of the notifications of one behaviour: at most one for each
\* request.
NotificationIds == 1..MaxReq

\* C27: every notification of the store that is pending, stored by an event
\* handler or by Notify, is eventually sent or failed.
C27_NoNotificationStaysPending ==
  \A n \in NotificationIds :
    (n \in DOMAIN notifications /\ notifications[n].status = "pending")
      ~> (n \in DOMAIN notifications /\ notifications[n].status \in {"sent", "failed"})

\* The processing of an event ended with its notification failed, next to
\* the pending notification of a Notify.
C27_Witness ==
  /\ handled.kind = "Event"
  /\ handled.pc = "failed"
  /\ notifications[handled.notificationId].status = "failed"
  /\ \E j \in DOMAIN notifications :
       /\ "eventType" \notin DOMAIN notifications[j]
       /\ notifications[j].status = "pending"

\* C28: no handler issues a call twice: each request has made at most one
\* call to user-service and one to payment-service, and for its event at
\* most one post to notification-service and one to analytics-service,
\* whatever their outcomes; an order created by a CreateOrder has at most
\* one payment.
C28_NoRetry ==
  /\ \A x \in Requests :
       /\ x.calls.lookup <= 1
       /\ x.calls.payment <= 1
       /\ x.calls.notification <= 1
       /\ x.calls.analytics <= 1
       /\ x.calls.lookup = 1 <=> (x.kind = "CreateOrder" /\ x.resp # ValidationResp)
       /\ x.calls.payment = 1 <=> (x.kind = "CreateOrder" /\ x.orderId # 0)
       /\ x.calls.notification = 1 <=> x.evt # NoEvent
       /\ x.calls.analytics = 1 <=> x.analytics # "none"
  /\ \A x \in Requests :
       (x.kind = "CreateOrder" /\ x.orderId # 0) =>
         Cardinality({p \in DOMAIN payments : payments[p].orderId = x.orderId}) <= 1

\* A CreateOrder was answered after its payment call timed out and both
\* posts of its event failed: each call was made once.
C28_Witness ==
  /\ response.kind = "CreateOrder"
  /\ response.resp.code = 201
  /\ response.payment = NoPayment
  /\ response.notification = "failed"
  /\ response.analytics = "failed"
  /\ response.calls = [lookup |-> 1, payment |-> 1, notification |-> 1,
                        analytics |-> 1]
  /\ \A p \in DOMAIN payments : payments[p].orderId # response.orderId

\* The acknowledgment of an event: success, with the kind of the event.
Acknowledged(x) ==
  x.resp = [code |-> 200, received |-> TRUE, eventType |-> x.body.eventType]

\* C29: the step that receives an event answers it with the acknowledgment,
\* the same for every event, and leaves the notification store as it was;
\* every event in processing has been acknowledged, and no step of its
\* processing sends a response, however it ends (lookup failure, delivery
\* failure, handler error); an event of a kind other than OrderCreated and
\* PaymentProcessed is not processed and leaves the store unchanged.
C29_AcknowledgedBeforeProcessing ==
  /\ [](\A x \in Requests \cup {handled} :
          x.kind = "Event" => Acknowledged(x))
  /\ [][/\ response'.kind = "Event" =>
             /\ nreq' = nreq + 1
             /\ Acknowledged(response')
             /\ notifications' = notifications
             /\ response'.body.eventType \notin {"OrderCreated", "PaymentProcessed"} =>
                  /\ req' = req
                  /\ handled' = Handled(response', "unknown")
        /\ \A x \in InFlight :
             (x.kind = "Event" /\ Resumed(x)) =>
               /\ response' = NoResponse
               /\ \/ \E y \in BagToSet(req') :
                       New(y) /\ y.body = x.body /\ y.resp = x.resp
                  \/ /\ handled'.body = x.body
                     /\ handled'.resp = x.resp
                     /\ handled'.pc \in {"order not found", "user not found",
                                         "error", "sent", "failed"}]_vars

\* An OrderCreated event without totalAmount was acknowledged as every
\* event; its handler threw after the user lookup and nothing is stored.
C29_Witness ==
  /\ handled.kind = "Event"
  /\ handled.pc = "error"
  /\ handled.lookup = "ok"
  /\ Acknowledged(handled)
  /\ response = NoResponse
  /\ notifications = <<>>

\* C30: a CreateOrder leaves the handlers in flight only by the step that
\* sends its response, and whenever a CreateOrder is in flight, eventually
\* none is: every CreateOrder of the behaviour is answered, whatever
\* user-service, payment-service and the two subscribers do.
C30_CreateOrderAnswered ==
  /\ [][\A x \in InFlight :
           (x.kind = "CreateOrder" /\ Resumed(x)) =>
             \/ \E y \in BagToSet(req') : New(y) /\ y.kind = "CreateOrder"
             \/ /\ response'.kind = "CreateOrder"
                /\ response'.userId = x.userId /\ response'.items = x.items
                /\ response'.resp.code \in {201, 400, 500}]_vars
  /\ (\E x \in InFlight : x.kind = "CreateOrder")
       ~> (\A x \in InFlight : x.kind # "CreateOrder")

\* A CreateOrder was answered 201 while payment-service has not processed
\* its payment request, and both subscribers failed.
C30_Witness ==
  /\ response.kind = "CreateOrder"
  /\ response.resp.code = 201
  /\ response.notification = "failed"
  /\ response.analytics = "failed"
  /\ \E a \in InFlight :
       a.kind = "Authorize" /\ a.caller = response.orderId /\ a.pc = "processing"

----------------------------------------------------------------------------
\* Frame of the order store

\* The fields of an order that no handler assigns after the order is built.
SameIdentity(o, n) ==
  /\ n.id = o.id
  /\ n.userId = o.userId
  /\ n.items = o.items
  /\ n.totalAmount = o.totalAmount
  /\ n.createdAt = o.createdAt

\* The step is the write of a PUT /orders/:id/status to order id, answered
\* with success later: the handler goes on to emit OrderUpdated.
UpdateStatusWrites(id) ==
  \E y \in BagToSet(req') :
    /\ New(y)
    /\ y.kind = "UpdateStatus"
    /\ y.orderId = id
    /\ y.pc = "emit"

\* The step is the payment step of the POST /orders that stored order id.
CreateOrderWrites(id) ==
  \E x \in InFlight :
    /\ Resumed(x)
    /\ x.kind = "CreateOrder"
    /\ x.orderId = id
    /\ x.pc = "payment"

\* C31 as stated: no order leaves the store; a successful UpdateStatus
\* changes status and updatedAt of the addressed order and nothing else in
\* the store; an order of the store is changed by no step other than an
\* UpdateStatus.
C31_OnlyUpdateStatusModifies ==
  [][\A id \in DOMAIN orders :
       /\ id \in DOMAIN orders'
       /\ UpdateStatusWrites(id) =>
            /\ SameIdentity(orders[id], orders'[id])
            /\ orders'[id].paymentId = orders[id].paymentId
            /\ orders'[id].status \in validStatuses
            /\ \A other \in DOMAIN orders \ {id} : orders'[other] = orders[other]
       /\ orders'[id] # orders[id] => UpdateStatusWrites(id)]_vars

\* C31 (amended): the same frame for UpdateStatus; an order of the store is
\* changed only by an UpdateStatus or by the payment step of the POST /orders
\* that stored it and has not answered yet, which writes paymentId, status
\* and updatedAt of that order alone.
C31_FrameOfUpdateStatus ==
  [][\A id \in DOMAIN orders :
       /\ id \in DOMAIN orders'
       /\ UpdateStatusWrites(id) =>
            /\ SameIdentity(orders[id], orders'[id])
            /\ orders'[id].paymentId = orders[id].paymentId
            /\ orders'[id].status \in validStatuses
            /\ \A other \in DOMAIN orders \ {id} : orders'[other] = orders[other]
       /\ orders'[id] # orders[id] =>
            \/ UpdateStatusWrites(id)
            \/ /\ CreateOrderWrites(id)
               /\ SameIdentity(orders[id], orders'[id])
               /\ \A other \in DOMAIN orders \ {id} :
                    orders'[other] = orders[other]]_vars

\* An order that has a payment was shipped by an UpdateStatus and kept its
\* payment, while another order of the store is still pending.
C31_Witness ==
  /\ \E x \in InFlight : x.kind = "UpdateStatus" /\ x.orderId = 1 /\ x.pc = "emit"
  /\ orders[1].status = "shipped"
  /\ orders[1].paymentId = 1
  /\ orders[1].updatedAt = 2
  /\ orders[2].status = "pending"

\* C32: a payment that POST /orders requests is stored with the id and the
\* total of the order it is requested for; an order whose paymentId is set
\* refers to a payment of the store that carries the order's id and total;
\* no step, a refund included, removes a payment or changes its orderId,
\* amount or currency.
C32_PaymentMatchesOrder ==
  /\ [](\A id \in DOMAIN orders :
          orders[id].paymentId # 0 =>
            /\ orders[id].paymentId \in DOMAIN payments
            /\ payments[orders[id].paymentId].orderId = id
            /\ payments[orders[id].paymentId].amount = orders[id].totalAmount)
  /\ [][/\ \A a \in BagToSet(req') :
             (/\ New(a)
              /\ a.kind = "Authorize"
              /\ a.caller # 0
              /\ a.pc = "processing") =>
               /\ a.caller \in DOMAIN orders
               /\ a.paymentId \in DOMAIN payments' \ DOMAIN payments
               /\ payments'[a.paymentId].orderId = a.caller
               /\ payments'[a.paymentId].amount = orders[a.caller].totalAmount
        /\ \A p \in DOMAIN payments :
             /\ p \in DOMAIN payments'
             /\ payments'[p].orderId = payments[p].orderId
             /\ payments'[p].amount = payments[p].amount
             /\ payments'[p].currency = payments[p].currency]_vars

\* A POST /orders for two units was answered with the order referring to its
\* payment of 59.98, and the seeded payment of order 1 was refunded.
C32_Witness ==
  /\ 3 \in DOMAIN orders
  /\ orders[3].paymentId = 2
  /\ payments[2].orderId = 3
  /\ payments[2].amount = 5998
  /\ orders[3].totalAmount = 5998
  /\ payments[1].status = "refunded"
  /\ payments[1].amount = 10997

\* C33: a PUT /orders/:id/status for an id that is not in the store is
\* answered 404 Order not found, and one with a status outside validStatuses
\* (for an order of the store) 400 Invalid status; neither changes the order
\* store nor emits an event: the request ends in the step it arrives in.
C33_UpdateStatusRejected ==
  [][\A id \in DOMAIN orders \cup {0}, status \in StatusInputs :
       (/\ nreq' = nreq + 1
        /\ \E y \in Successors(NewReq("UpdateStatus")) :
             y.orderId = id /\ y.status = status
        /\ (id \notin DOMAIN orders \/ status \notin validStatuses)) =>
         /\ response'.kind = "UpdateStatus"
         /\ response'.resp = IF id \notin DOMAIN orders
                             THEN [code |-> 404, error |-> "Order not found"]
                             ELSE [code |-> 400, error |-> "Invalid status"]
         /\ response'.evt = NoEvent
         /\ response'.calls.notification = 0
         /\ response'.calls.analytics = 0
         /\ orders' = orders
         /\ req' = req]_vars

\* A PUT with status refunded for order 1 was refused with 400 and the order
\* is still confirmed.
C33_Witness ==
  /\ response.kind = "UpdateStatus"
  /\ response.orderId = 1
  /\ response.status = "refunded"
  /\ response.resp.code = 400
  /\ orders[1].status = "confirmed"

\* C34: when payment-service answers the authorization of a POST /orders
\* with a declined payment (402, payment in status failed) and order-service
\* receives that answer, the 201 response of POST /orders carries that
\* payment record next to the order.
C34_DeclinedPaymentInResponse ==
  (response.kind = "CreateOrder" /\ response.reply = 402) =>
    /\ response.resp.code = 201
    /\ "payment" \in DOMAIN response.resp
    /\ response.resp.payment.status = "failed"
    /\ response.resp.payment.orderId = response.orderId

\* C35: an accepted POST /events appends, for OrderCreated, the metric
\* order-service.orders_created whose value is the total of the payload,
\* whatever the total, 0 included; for PaymentProcessed,
\* payment-service.payments_successful when the payload's status is completed
\* and payment-service.payments_failed otherwise, with the amount as value;
\* for UserCreated, user-service.users_created with value 1.
C35_MetricDerivation ==
  [][(response'.kind = "Ingest" /\ response'.resp.code = 200) =>
       LET event == response'.body
       IN  /\ event.eventType = EventTypes.ORDER_CREATED =>
                metrics' = Append(metrics, [service |-> "order-service",
                                            metric |-> "orders_created",
                                            value |-> event.payload.totalAmount])
           /\ event.eventType = EventTypes.PAYMENT_PROCESSED =>
                metrics' = Append(metrics,
                  [service |-> "payment-service",
                   metric |-> IF event.payload.status = "completed"
                              THEN "payments_successful" ELSE "payments_failed",
                   value |-> event.payload.amount])
           /\ event.eventType = EventTypes.USER_CREATED =>
                metrics' = Append(metrics, [service |-> "user-service",
                                            metric |-> "users_created",
                                            value |-> 1])]_vars

\* C36: the event store and the metric store of analytics-service only
\* grow at their end: every step leaves the records already stored in place
\* and as they were; an accepted POST /events appends exactly one event
\* record, the event received; GET /metrics, GET /events and GET /reports,
\* which filter and sort, leave both stores as they are.
C36_AppendOnly ==
  [][/\ Len(events') >= Len(events)
     /\ SubSeq(events', 1, Len(events)) = events
     /\ Len(metrics') >= Len(metrics)
     /\ SubSeq(metrics', 1, Len(metrics)) = metrics
     /\ (response'.kind = "Ingest" /\ response'.resp.code = 200) =>
          events' = Append(events, response'.body)
     /\ response'.kind \in {"GetMetrics", "GetEvents", "GetReports"} =>
          events' = events /\ metrics' = metrics]_vars

\* GET /events answered with the two stored events newest first, the reverse
\* of the order in which the store holds them.
C36_Witness ==
  /\ response.kind = "GetEvents"
  /\ Len(events) = 2
  /\ events[1].timestamp < events[2].timestamp
  /\ response.resp.events = <<events[2], events[1]>>

\* C37: a status that an UpdateStatus wrote while the POST /orders that
\* stored the order was awaiting payment-service (the order's updatedAt is
\* past its creation while the request is at its payment step) is not
\* changed by that POST /orders when its payment step ends.
C37_StatusWriteNotOverwritten ==
  [][\A x \in InFlight :
       (/\ x.kind = "CreateOrder"
        /\ x.pc = "payment"
        /\ Resumed(x)
        /\ orders[x.orderId].updatedAt > 0) =>
         orders'[x.orderId].status = orders[x.orderId].status]_vars

\* C38: when a POST /orders has ended and the payment store holds a
\* completed payment that was authorized for its order, the order refers to
\* that payment; it is confirmed unless an UpdateStatus wrote another status
\* since.  No order that POST /orders stored is left with paymentId null
\* while a completed payment of it exists.
C38_CompletedPaymentConfirmsOrder ==
  \A id \in DOMAIN orders \ {1, 2} :
    \A p \in DOMAIN payments :
      (/\ payments[p].orderId = id
       /\ payments[p].status = "completed"
       /\ ~\E x \in InFlight : x.kind = "CreateOrder" /\ x.orderId = id) =>
        /\ orders[id].paymentId = p
        /\ \/ orders[id].status = "confirmed"
           \/ \E y \in Requests : y.kind = "UpdateStatus" /\ y.orderId = id

====
